---- MODULE Spec2Model ----
(***************************************************************************)
(* State-machine model of the sitcheck occupancy pipeline.                 *)
(*                                                                         *)
(*  - batch run orchestration: DetectionProcessor.process_images and the   *)
(*    methods it calls (src/DetectionProcessor.py), with the repository    *)
(*    calls of src/DatabaseHandler.py;                                     *)
(*  - image ingestion: LiveImageLoader.watch (src/DataLoader.py);          *)
(*  - live session: LiveProcessor (src/LiveProcessor.py) on top of the     *)
(*    generator watch();                                                   *)
(*  - live detection session: LiveDetectionProcessor                       *)
(*    (src/LiveDataProcessor.py), a DetectionProcessor fed by watch();     *)
(*  - detector: UltralyticsPersonDetector.detect on the confidences of     *)
(*    the boxes found (src/UltralyticsPersonDetector.py);                  *)
(*  - pairing: TimeSeriesAnalyzer (src/TimeSeriesAnalyzer.py), one pair at *)
(*    a time and as cycles over the stored detections.                     *)
(*                                                                         *)
(* Each part has its own specification (SpecBatch, SpecWatch, SpecLive,    *)
(* SpecSession, SpecEstimate, SpecTwin, SpecPair, SpecSingleShot); a       *)
(* specification leaves the variables of the other parts unchanged.        *)
(* SpecCap is the size cap of process_images over the image lists,         *)
(* SpecSwap the estimation of a pair and of the pair with its sides        *)
(* exchanged, SpecConfigured the analysis under a configured threshold,    *)
(* SpecLocated the image source over any two distinct directory paths.     *)
(* SpecCore runs one of the batch run, the live session and the pairing    *)
(* against the store.                                                      *)
(*                                                                         *)
(* DetectionProcessor calls a resource monitor, a CSV exporter and an      *)
(* image-list loader (get_classified_images, get_image_info) that the      *)
(* repository does not contain. Their calls are taken to return; they hold *)
(* no state of the run. An exception of get_image_info inside the except   *)
(* clause of _process_single_image is the failure that escapes the         *)
(* per-item step (outcome "fault").                                        *)
(***************************************************************************)
EXTENDS Integers, Sequences, FiniteSets, TLC

\* ------------------------------------------------------------------ bounds

\* Largest number of images get_classified_images hands to a batch run.
MaxImages == 3

\* Largest number of KeyboardInterrupts delivered to one batch run.
MaxInterrupts == 1

\* ------------------------------------------------------------- batch state

VARIABLES
    pc,                     \* position of process_images
    total,                  \* len(images); -1 before the list is loaded
    idx,                    \* i of enumerate(images, 1); 0 before the loop
    db_connected,           \* result of _setup_database
    conn,                   \* self.db.connection: "none" | "open" | "closed"
    runRow,                 \* the ai_runs row of this run
    results,                \* the detection_results rows of this run
    processed,              \* indices on which detector.detect was invoked
    result_data,            \* the dict returned by _process_single_image
    successful_detections,
    failed_detections,
    processing_times,       \* len(processing_times)
    status,                 \* local variable status of _execute_processing
    updates,                \* update_run_completion calls issued
    saves,                  \* _save_result calls made
    finalized,              \* _finalize_processing calls made
    ret,                    \* value returned by process_images
    interrupts,             \* KeyboardInterrupts delivered so far
    interruptedAt,          \* pc at which the interrupt landed
    detLog,                 \* outcome of each _process_single_image call
    insertFailed,           \* an insert_result call failed
    updateFailed            \* the update_run_completion call failed

batchVars ==
    << pc, total, idx, db_connected, conn, runRow, results, processed,
       result_data, successful_detections, failed_detections,
       processing_times, status, updates, saves, finalized, ret,
       interrupts, interruptedAt, detLog, insertFailed, updateFailed >>

\* ------------------------------------------------------------- watch state

VARIABLES
    locations,              \* self.dir_x and self.dir_y: the two paths
    dirs,                   \* the files of dir_x and dir_y in iterdir order
    nextId,                 \* identity of the next file to appear
    wpc,                    \* position of the generator watch()
    wdir,                   \* directory of the for loop of watch()
    next_img,               \* file found by _get_next_image_path (0: None)
    stop_event,             \* self._stop_event.is_set()
    yielded,                \* the tuples yielded so far, with the file of each
    failedIds,              \* files on which _load_and_delete returned None
    cycle_yields            \* directories that yielded in this pass of the
                            \* while body

watchVars ==
    << locations, dirs, nextId, wpc, wdir, next_img, stop_event, yielded,
       failedIds,
       cycle_yields >>


\* str(uuid.uuid4()) of process_images
RunId == "run"

NoRunId == "none"

None == [ none |-> TRUE ]

\* A confidence that is None
NoConf == -1

Range(s) == { s[i] : i \in 1..Len(s) }

Terminal == {"completed", "failed", "cancelled"}

\* Outcomes of one _process_single_image call: the detector returns, the
\* detector raises (caught at the per-item step), or the handler of the
\* per-item step raises itself and the exception escapes.
DetectOutcomes == {"ok", "detfail", "fault"}

\* Outcomes of one repository call: it returns True, it returns False
\* (DatabaseError caught inside DatabaseHandler), or it raises.
StoreOutcomes == {"ok", "false", "raise"}

\* Outcomes of _setup_database by the step that fails.
SetupOutcomes == {"connect_fail", "tables_fail", "insert_fail", "ok"}

NoResult ==
    [ run_id |-> NoRunId, item |-> 0, success |-> FALSE,
      model_output |-> None, error_message |-> FALSE ]

\* UltralyticsPersonDetector.__init__: confidence_threshold, in hundredths
detector_confidence_threshold == 50

\* What the network reports for one image: the confidence of every box of
\* class person, in hundredths.
BoxLists == { << >>, << 40 >>, << 90, 30, 60 >> }

\* The boxes detect keeps: confidence >= self.confidence_threshold.
RECURSIVE Kept(_)
Kept(boxes) ==
    IF boxes = << >> THEN << >>
    ELSE IF Head(boxes) >= detector_confidence_threshold
           THEN << Head(boxes) >> \o Kept(Tail(boxes))
           ELSE Kept(Tail(boxes))

RECURSIVE Sum(_)
Sum(s) == IF s = << >> THEN 0 ELSE Head(s) + Sum(Tail(s))

MaxOf(s) == CHOOSE v \in Range(s) : \A w \in Range(s) : w <= v

MinOf(s) == CHOOSE v \in Range(s) : \A w \in Range(s) : v <= w

\* The value detect reports for each statistic of an image without a kept
\* box: 0.0.
no_detection_confidence == 0

\* UltralyticsPersonDetector.detect: the count is the number of kept boxes,
\* the statistics are those of their confidences (the mean to the hundredth
\* below), 0.0 when no box is kept.
detect(boxes) ==
    LET confidences == Kept(boxes)
    IN  [ persons_detected |-> Len(confidences),
          avg_confidence |-> IF confidences = << >>
                               THEN no_detection_confidence
                               ELSE Sum(confidences) \div Len(confidences),
          max_confidence |-> IF confidences = << >>
                               THEN no_detection_confidence
                               ELSE MaxOf(confidences),
          min_confidence |-> IF confidences = << >>
                               THEN no_detection_confidence
                               ELSE MinOf(confidences) ]

NoRow == [ run_id |-> NoRunId, status |-> "none", total_images |-> 0,
           successful_detections |-> 0, failed_detections |-> 0 ]

LoopPcs == {"loop", "detecting", "count", "tally", "save"}

RECURSIVE CountOf(_, _)
CountOf(log, v) ==
    IF log = << >> THEN 0
    ELSE (IF Head(log) = v THEN 1 ELSE 0) + CountOf(Tail(log), v)

\* -------------------------------------------------------------- batch init

BatchInit ==
    /\ pc = "setup"
    /\ total = -1
    /\ idx = 0
    /\ db_connected = FALSE
    /\ conn = "none"
    /\ runRow = NoRow
    /\ results = << >>
    /\ processed = << >>
    /\ result_data = NoResult
    /\ successful_detections = 0
    /\ failed_detections = 0
    /\ processing_times = 0
    /\ status = "none"
    /\ updates = 0
    /\ saves = 0
    /\ finalized = 0
    /\ ret = NoRunId
    /\ interrupts = 0
    /\ interruptedAt = "none"
    /\ detLog = << >>
    /\ insertFailed = FALSE
    /\ updateFailed = FALSE

\* ----------------------------------------------------------- batch actions

\* DatabaseHandler.insert_run: the row starts in status 'running' (the
\* column default of ai_runs).
insert_run ==
    [ run_id |-> RunId, status |-> "running", total_images |-> 0,
      successful_detections |-> 0, failed_detections |-> 0 ]

\* _setup_database: connect, create_tables, insert_run; every failure
\* (False returned or exception caught) gives db_connected = False.
setup_database ==
    /\ pc = "setup"
    /\ \E o \in SetupOutcomes :
         /\ db_connected' = (o = "ok")
         /\ conn' = IF o = "connect_fail" THEN "none" ELSE "open"
         /\ runRow' = IF o = "ok" THEN insert_run ELSE runRow
    /\ pc' = "load"
    /\ UNCHANGED << total, idx, results, processed, result_data,
                    successful_detections, failed_detections,
                    processing_times, status, updates, saves, finalized,
                    ret, interrupts, interruptedAt, detLog, insertFailed,
                    updateFailed >>

\* max_images=None, the default of process_images
NoCap == -1

\* The values of max_images a caller passes.
CapArgs == {NoCap} \cup (0..(MaxImages + 1))

\* images[:max_images] with every integer taken as a cap.
cap_images_always(images, m) ==
    IF m = NoCap THEN images
    ELSE SubSeq(images, 1, IF m < Len(images) THEN m ELSE Len(images))

\* if max_images: images = images[:max_images]. None and 0 are falsy, so
\* the slice is taken only for a cap of at least 1.
cap_images(images, m) ==
    IF m = NoCap \/ m = 0 THEN images
    ELSE SubSeq(images, 1, IF m < Len(images) THEN m ELSE Len(images))

\* process_images gives up when the setup failed.
load_images_blocked ==
    /\ pc = "load"
    /\ \E n \in 0..MaxImages :
         /\ total' = n
         /\ IF n = 0 \/ ~db_connected
              THEN /\ pc' = "done"
                   /\ ret' = RunId
                   /\ status' = status
              ELSE /\ pc' = "loop"
                   /\ ret' = ret
                   /\ status' = "completed"
    /\ UNCHANGED << idx, db_connected, conn, runRow, results, processed,
                    result_data, successful_detections, failed_detections,
                    processing_times, updates, saves, finalized,
                    interrupts, interruptedAt, detLog, insertFailed,
                    updateFailed >>

\* process_images after the setup: the image list is loaded; an empty
\* list returns the run id at once, otherwise _execute_processing starts
\* with status = 'completed'.
load_images ==
    /\ pc = "load"
    /\ \E listed \in 0..MaxImages, m \in CapArgs :
        LET n == Len(cap_images([ i \in 1..listed |-> i ], m))
        IN
         /\ total' = n
         /\ IF n = 0
              THEN /\ pc' = "done"
                   /\ ret' = RunId
                   /\ status' = status
              ELSE /\ pc' = "loop"
                   /\ ret' = ret
                   /\ status' = "completed"
    /\ UNCHANGED << idx, db_connected, conn, runRow, results, processed,
                    result_data, successful_detections, failed_detections,
                    processing_times, updates, saves, finalized,
                    interrupts, interruptedAt, detLog, insertFailed,
                    updateFailed >>

\* The head of the for loop of _execute_processing (after the pause of the
\* previous item): the next item is handed to _process_single_image, which
\* invokes detector.detect; past the last item the loop ends.
loop_next ==
    /\ pc = "loop"
    /\ IF idx < total
         THEN /\ idx' = idx + 1
              /\ processed' = Append(processed, idx + 1)
              /\ pc' = "detecting"
         ELSE /\ pc' = "finalize"
              /\ UNCHANGED << idx, processed >>
    /\ UNCHANGED << total, db_connected, conn, runRow, results, result_data,
                    successful_detections, failed_detections,
                    processing_times, status, updates, saves, finalized,
                    ret, interrupts, interruptedAt, detLog, insertFailed,
                    updateFailed >>

\* The dict _process_single_image builds from the detector's outcome.
ResultData(i, o, result) ==
    [ run_id |-> RunId, item |-> i, success |-> (o = "ok"),
      model_output |-> IF o = "ok" THEN result ELSE None,
      error_message |-> (o = "detfail") ]


\* The except clause of _process_single_image catches the detector's
\* exception; only an exception raised by the handler itself escapes.
EscapesAll(o) == o # "ok"

Escapes(o) == o = "fault"

\* Where control goes when an exception escapes the per-item step: the
\* try of _execute_processing encloses the whole loop, so the loop is left.
FaultTargetLoop == "loop"

FaultTarget == "finalize"

\* _process_single_image: detector.detect returns or raises.
process_single_image ==
    /\ pc = "detecting"
    /\ \E o \in DetectOutcomes, boxes \in BoxLists :
         /\ detLog' = Append(detLog, o)
         /\ IF Escapes(o)
              THEN /\ status' = "failed"
                   /\ pc' = FaultTarget
                   /\ result_data' = result_data
              ELSE /\ status' = status
                   /\ pc' = "count"
                   /\ result_data' = ResultData(idx, o, detect(boxes))
    /\ UNCHANGED << total, idx, db_connected, conn, runRow, results,
                    processed, successful_detections, failed_detections,
                    processing_times, updates, saves, finalized, ret,
                    interrupts, interruptedAt, insertFailed, updateFailed >>

\* _execute_processing, line 117: the processing time of the item is
\* recorded.
record_processing_time ==
    /\ pc = "count"
    /\ processing_times' = processing_times + 1
    /\ pc' = "tally"
    /\ UNCHANGED << total, idx, db_connected, conn, runRow, results,
                    processed, result_data, status, updates, saves,
                    finalized, ret, interrupts, interruptedAt, detLog,
                    insertFailed, updateFailed,
                    successful_detections, failed_detections >>

\* Only a successful outcome is counted.
count_result_successes_only ==
    /\ pc = "tally"
    /\ successful_detections' =
          successful_detections + (IF result_data.success THEN 1 ELSE 0)
    /\ failed_detections' = failed_detections
    /\ pc' = "save"
    /\ UNCHANGED << total, idx, db_connected, conn, runRow, results,
                    processed, result_data, status, updates, saves,
                    finalized, ret, interrupts, interruptedAt, detLog,
                    insertFailed, updateFailed,
                    processing_times >>

\* _execute_processing, lines 119-122: the outcome is counted as a success
\* or as a failure.
count_result ==
    /\ pc = "tally"
    /\ IF result_data.success
         THEN /\ successful_detections' = successful_detections + 1
              /\ failed_detections' = failed_detections
         ELSE /\ failed_detections' = failed_detections + 1
              /\ successful_detections' = successful_detections
    /\ pc' = "save"
    /\ UNCHANGED << total, idx, db_connected, conn, runRow, results,
                    processed, result_data, status, updates, saves,
                    finalized, ret, interrupts, interruptedAt, detLog,
                    insertFailed, updateFailed,
                    processing_times >>

\* The try/except of _save_result swallows every exception of insert_result.
SaveEscapesRaise(o) == o = "raise"

SaveEscapes(o) == FALSE

\* DatabaseHandler.insert_result with every row but the newest lost.
insert_result_replace(rows, rd, o) ==
    IF o = "ok" THEN << rd >> ELSE rows

\* persons_detected of a result without model output, as insert_result
\* computes it: 0.
persons_without_output_unknown == NoConf

persons_without_output == 0

\* DatabaseHandler.insert_result: one INSERT INTO detection_results. The
\* count is int(model_output['persons_detected']) or 0, each confidence is
\* float(...) of the detector's value, None when there is no model output;
\* nothing is stored when the statement fails.
insert_result(rows, rd, o) ==
    LET out == rd.model_output
        row == [ run_id |-> rd.run_id, item |-> rd.item,
                 success |-> rd.success,
                 model_output |-> out,
                 error_message |-> rd.error_message,
                 persons_detected |-> IF out = None
                                        THEN persons_without_output
                                        ELSE out.persons_detected,
                 avg_confidence |-> IF out = None THEN NoConf
                                    ELSE out.avg_confidence,
                 max_confidence |-> IF out = None THEN NoConf
                                    ELSE out.max_confidence,
                 min_confidence |-> IF out = None THEN NoConf
                                    ELSE out.min_confidence ]
    IN  IF o = "ok" THEN Append(rows, row) ELSE rows

\* _save_result: insert_result is called only when db_connected; the row is
\* stored when the call succeeds. (The CSV export that follows has its own
\* try/except and touches no state of the run.)
save_result ==
    /\ pc = "save"
    /\ saves' = saves + 1
    /\ IF db_connected
         THEN \E o \in StoreOutcomes :
                /\ results' = insert_result(results, result_data, o)
                /\ insertFailed' = (insertFailed \/ o # "ok")
                /\ IF SaveEscapes(o)
                     THEN /\ status' = "failed"
                          /\ pc' = FaultTarget
                     ELSE /\ status' = status
                          /\ pc' = "loop"
         ELSE /\ pc' = "loop"
              /\ UNCHANGED << results, insertFailed, status >>
    /\ UNCHANGED << total, idx, db_connected, conn, runRow, processed,
                    result_data, successful_detections, failed_detections,
                    processing_times, updates, finalized, ret, interrupts,
                    interruptedAt, detLog, updateFailed >>

\* DatabaseHandler.update_run_completion: the UPDATE of the run's row.
update_run_completion(row, st, n, succ, failed) ==
    [ row EXCEPT !.status = st, !.total_images = n,
                 !.successful_detections = succ,
                 !.failed_detections = failed ]

\* Number of update_run_completion calls _finalize_processing makes: one,
\* whatever its outcome (a failure is printed, not retried).
CompletionCallsRetry(o) == IF o = "ok" THEN 1 ELSE 2

CompletionCalls(o) == 1

\* _finalize_processing: the completion update (only when db_connected),
\* the close of the connection, the return of the run id.
finalize_processing ==
    /\ pc = "finalize"
    /\ finalized' = finalized + 1
    /\ IF db_connected
         THEN \E o \in StoreOutcomes :
                /\ updates' = updates + CompletionCalls(o)
                /\ runRow' = IF o = "ok"
                               THEN update_run_completion(runRow, status,
                                      total, successful_detections,
                                      failed_detections)
                               ELSE runRow
                /\ updateFailed' = (o # "ok")
                /\ conn' = "closed"
         ELSE UNCHANGED << updates, runRow, updateFailed, conn >>
    /\ pc' = "done"
    /\ ret' = RunId
    /\ UNCHANGED << total, idx, db_connected, results, processed,
                    result_data, successful_detections, failed_detections,
                    processing_times, status, saves, interrupts,
                    interruptedAt, detLog, insertFailed >>

\* A KeyboardInterrupt is swallowed by the per-item step (a bare except).
keyboard_interrupt_swallowed ==
    /\ interrupts < MaxInterrupts
    /\ interrupts' = interrupts + 1
    /\ \/ /\ pc = "detecting"
          /\ pc' = "count"
          /\ result_data' = ResultData(idx, "detfail", None)
          /\ interruptedAt' = pc
          /\ UNCHANGED status
       \/ /\ pc \in LoopPcs \ {"detecting"}
          /\ status' = "cancelled"
          /\ pc' = "finalize"
          /\ interruptedAt' = pc
          /\ UNCHANGED result_data
    /\ UNCHANGED << total, idx, db_connected, conn, runRow, results,
                    processed, successful_detections, failed_detections,
                    processing_times, updates, saves, finalized, ret,
                    detLog, insertFailed, updateFailed >>

\* A KeyboardInterrupt raised in the main thread. Inside the try of
\* _execute_processing (lines 111-132) it is not an Exception, so the
\* per-item step does not catch it: the loop is left at once with status
\* 'cancelled'. Anywhere else in process_images it propagates to the caller.
keyboard_interrupt ==
    /\ interrupts < MaxInterrupts
    /\ interrupts' = interrupts + 1
    /\ \/ /\ pc \in LoopPcs
          /\ status' = "cancelled"
          /\ pc' = "finalize"
          /\ interruptedAt' = pc
       \/ /\ pc \in {"setup", "load", "finalize"}
          /\ pc' = "raised"
          /\ UNCHANGED << status, interruptedAt >>
    /\ UNCHANGED << total, idx, db_connected, conn, runRow, results,
                    processed, result_data, successful_detections,
                    failed_detections, processing_times, updates, saves,
                    finalized, ret, detLog, insertFailed, updateFailed >>

\* -------------------------------------------------------------- image source

\* Largest number of files that ever appear in the two input directories.
MaxFiles == 2

Dirs == {"X", "Y"}

\* The directories a path can lie in.
Parents == {"a", "b"}

\* Path(dir_x), Path(dir_y): a path is a parent and a name; the two
\* directories can carry any name, also the same one.
Paths == [ parent : Parents, name : Dirs ]

\* LiveImageLoader("input_x", "input_y"): two directories side by side,
\* each carrying the name of its side.
InputDirs == [ d \in Dirs |-> [ parent |-> "a", name |-> d ] ]

\* str(directory): the whole path as the tag.
directory_path(d) == locations[d]

\* directory.name
directory_name(d) == locations[d].name

\* A file of an input directory: eligible stands for "suffix in
\* supported_formats and is_file()", decodable for "cv2.imread returns an
\* image".
FileOf(i, e, d) == [ id |-> i, eligible |-> e, decodable |-> d ]

Ids(files) == { files[k].id : k \in 1..Len(files) }

InsertAt(s, k, x) == SubSeq(s, 1, k - 1) \o << x >> \o SubSeq(s, k, Len(s))

RemoveAt(s, k) == SubSeq(s, 1, k - 1) \o SubSeq(s, k + 1, Len(s))

RemoveId(s, i) == SelectSeq(s, LAMBDA f : f.id # i)

\* LiveImageLoader.__init__ with any two distinct paths.
LocatedInit ==
    /\ locations \in { l \in [ Dirs -> Paths ] :
                         l["X"] # l["Y"] /\ l["X"].parent = "a" }
    /\ dirs = [ d \in Dirs |-> << >> ]
    /\ nextId = 1
    /\ wpc = "head"
    /\ wdir = "X"
    /\ next_img = 0
    /\ stop_event = FALSE
    /\ yielded = << >>
    /\ failedIds = {}
    /\ cycle_yields = << >>

WatchInit ==
    /\ locations = InputDirs
    /\ dirs = [ d \in Dirs |-> << >> ]
    /\ nextId = 1
    /\ wpc = "head"
    /\ wdir = "X"
    /\ next_img = 0
    /\ stop_event = FALSE
    /\ yielded = << >>
    /\ failedIds = {}
    /\ cycle_yields = << >>

\* _get_next_image_path picks the first file with a decodable content.
get_next_image_path_skipping(files) ==
    LET ok == { k \in 1..Len(files) :
                  files[k].eligible /\ files[k].decodable }
    IN  IF ok = {} THEN 0
        ELSE files[CHOOSE k \in ok : \A j \in ok : k <= j].id

\* _get_next_image_path: the first file of the enumeration with a supported
\* suffix that is a regular file, None (0) when there is none.
get_next_image_path(files) ==
    LET ok == { k \in 1..Len(files) : files[k].eligible }
    IN  IF ok = {} THEN 0
        ELSE files[CHOOSE k \in ok : \A j \in ok : k <= j].id

\* What cv2.imread gives for file i of a directory: an image only when the
\* file is still there and decodes.
Decodes(files, i) ==
    \E k \in 1..Len(files) : files[k].id = i /\ files[k].decodable

\* _load_and_delete returns the image and leaves the file where it is.
load_and_delete_keep(files, i, unlinkOk) ==
    IF Decodes(files, i) /\ unlinkOk
      THEN [ img |-> TRUE, files |-> files ]
      ELSE [ img |-> FALSE, files |-> files ]

\* _load_and_delete unlinks the file before it looks at the decode result.
load_and_delete_eager(files, i, unlinkOk) ==
    IF Decodes(files, i) /\ unlinkOk
      THEN [ img |-> TRUE, files |-> RemoveId(files, i) ]
      ELSE [ img |-> FALSE,
             files |-> IF unlinkOk THEN RemoveId(files, i) ELSE files ]

\* _load_and_delete: None when the decode fails (the file is not touched)
\* or when unlink raises (caught); otherwise the file is removed and the
\* image returned.
load_and_delete(files, i, unlinkOk) ==
    IF Decodes(files, i) /\ unlinkOk
      THEN [ img |-> TRUE, files |-> RemoveId(files, i) ]
      ELSE [ img |-> FALSE, files |-> files ]

\* The for loop of watch() is left after a yield: the pass ends without a
\* look into the remaining directory.
Advance_ends_pass_on_yield ==
    IF wdir = "X" /\ wpc # "yielded"
      THEN wdir' = "Y" /\ wpc' = "scan"
      ELSE wdir' = wdir /\ wpc' = "sleep"

\* The for loop of watch() moves to dir_y after dir_x, and to the pause
\* after dir_y.
Advance ==
    IF wdir = "X" THEN wdir' = "Y" /\ wpc' = "scan"
                  ELSE wdir' = wdir /\ wpc' = "sleep"

\* while not self._stop_event.is_set()
watch_head ==
    /\ wpc = "head"
    /\ IF stop_event THEN wpc' = "stopped" /\ wdir' = wdir
                     ELSE wpc' = "scan" /\ wdir' = "X"
    /\ cycle_yields' = << >>
    /\ UNCHANGED << locations, dirs, nextId, next_img, stop_event, yielded,
                    failedIds >>

\* The for loop leaves the generator as soon as the stop event is set.
watch_scan_checks_stop ==
    /\ wpc = "scan"
    /\ next_img' = get_next_image_path(dirs[wdir])
    /\ IF stop_event THEN wpc' = "stopped" /\ wdir' = wdir
       ELSE IF next_img' = 0 THEN Advance ELSE wpc' = "load" /\ wdir' = wdir
    /\ UNCHANGED << locations, dirs, nextId, stop_event, yielded,
                    failedIds, cycle_yields >>

\* next_img = self._get_next_image_path(directory); if next_img: ...
watch_scan ==
    /\ wpc = "scan"
    /\ next_img' = get_next_image_path(dirs[wdir])
    /\ IF next_img' = 0 THEN Advance ELSE wpc' = "load" /\ wdir' = wdir
    /\ UNCHANGED << locations, dirs, nextId, stop_event, yielded,
                    failedIds, cycle_yields >>

\* img = self._load_and_delete(next_img); if img is not None: yield
watch_load ==
    /\ wpc = "load"
    /\ \E unlinkOk \in BOOLEAN :
         LET r == load_and_delete(dirs[wdir], next_img, unlinkOk)
         IN  /\ dirs' = [ dirs EXCEPT ![wdir] = r.files ]
             /\ IF r.img
                  THEN /\ yielded' = Append(yielded,
                                     [ source |-> directory_name(wdir),
                                       id |-> next_img ])
                       /\ wpc' = "yielded"
                       /\ wdir' = wdir
                  ELSE /\ yielded' = yielded
                       /\ Advance
             /\ failedIds' = IF r.img THEN failedIds
                                      ELSE failedIds \cup {next_img}
             /\ cycle_yields' = IF r.img THEN Append(cycle_yields, wdir)
                                         ELSE cycle_yields
    /\ UNCHANGED << locations, nextId, next_img, stop_event >>

\* The generator resumes after the yield and looks into the same directory
\* again while it has files.
watch_resume_drain ==
    /\ wpc = "yielded"
    /\ wpc' = "scan"
    /\ UNCHANGED << locations, dirs, nextId, wdir, next_img, stop_event, yielded,
                    failedIds, cycle_yields >>

\* The consumer asks for the next item: the generator resumes after the
\* yield.
watch_resume ==
    /\ wpc = "yielded"
    /\ Advance
    /\ UNCHANGED << locations, dirs, nextId, next_img, stop_event, yielded,
                    failedIds, cycle_yields >>

\* time.sleep(self.poll_interval)
watch_sleep ==
    /\ wpc = "sleep"
    /\ wpc' = "head"
    /\ UNCHANGED << locations, dirs, nextId, wdir, next_img, stop_event, yielded,
                    failedIds, cycle_yields >>

\* LiveImageLoader.stop
stop ==
    /\ ~stop_event
    /\ stop_event' = TRUE
    /\ UNCHANGED << locations, dirs, nextId, wpc, wdir, next_img, yielded,
                    failedIds,
                    cycle_yields >>

\* The environment puts a new file into a directory; iterdir enumerates in
\* arbitrary order, so the file may show up at any place of the enumeration.
env_add_file ==
    /\ nextId <= MaxFiles
    /\ \E d \in Dirs, e \in BOOLEAN, dec \in BOOLEAN :
         \E k \in 1..(Len(dirs[d]) + 1) :
            dirs' = [ dirs EXCEPT
                        ![d] = InsertAt(dirs[d], k, FileOf(nextId, e, dec)) ]
    /\ nextId' = nextId + 1
    /\ UNCHANGED << locations, wpc, wdir, next_img, stop_event, yielded,
                    failedIds,
                    cycle_yields >>

\* The environment removes a file from a directory.
env_remove_file ==
    /\ \E d \in Dirs : \E k \in 1..Len(dirs[d]) :
         dirs' = [ dirs EXCEPT ![d] = RemoveAt(dirs[d], k) ]
    /\ UNCHANGED << locations, nextId, wpc, wdir, next_img, stop_event,
                    yielded,
                    failedIds, cycle_yields >>

\* The environment completes a file that did not decode so far.
env_fix_file ==
    /\ \E d \in Dirs : \E k \in 1..Len(dirs[d]) :
         /\ ~dirs[d][k].decodable
         /\ dirs' = [ dirs EXCEPT ![d][k].decodable = TRUE ]
    /\ UNCHANGED << locations, nextId, wpc, wdir, next_img, stop_event,
                    yielded,
                    failedIds, cycle_yields >>

\* ------------------------------------------------------------ live session
\*
\* LiveProcessor.start consumes the generator watch() in its own thread of
\* control: the generator runs only while start() is inside next(), and
\* start() goes on only when the generator has yielded or ended.
\* LiveProcessor.stop is a public method; another thread may call it at any
\* moment of the session. DatabaseHandler.insert_detection is called by
\* _process_image but is not part of src/DatabaseHandler.py; it is modelled
\* after insertObservation of the specification (section 6): the row is
\* stored and its id returned, or nothing is stored.

VARIABLES
    lpc,                    \* position of LiveProcessor.start
    running,                \* self._running
    item,                   \* file of the tuple start() holds (0: none)
    calls,                  \* the _process_image calls made so far
    observations,           \* the person_detections rows
    liveConn,               \* self.db.connection: "none" | "open" | "closed"
    sigint                  \* a KeyboardInterrupt has been delivered

liveVars == << lpc, running, item, calls, observations, liveConn, sigint >>

LiveInit ==
    /\ lpc = "start"
    /\ running = FALSE
    /\ item = 0
    /\ calls = << >>
    /\ observations = << >>
    /\ liveConn = "none"
    /\ sigint = FALSE

StartOutcomes == {"connect_fail", "tables_fail", "ok"}

LiveDetectOutcomes == {"ok", "detfail"}

\* Positions of start() inside its try block.
LiveTryPcs == {"for", "next", "check", "process"}

\* start(), up to the for statement: it returns when connect or
\* create_tables fails.
live_start ==
    /\ lpc = "start"
    /\ \E o \in StartOutcomes :
         /\ liveConn' = IF o = "connect_fail" THEN "none" ELSE "open"
         /\ running' = (o = "ok")
         /\ lpc' = IF o = "ok" THEN "for" ELSE "returned"
    /\ UNCHANGED << item, calls, observations, sigint >>
    /\ UNCHANGED watchVars

\* for source, img in self.loader.watch(): start() asks the generator for
\* the next tuple; a generator that has yielded resumes behind the yield.
live_for ==
    /\ lpc = "for"
    /\ lpc' = "next"
    /\ IF wpc = "yielded" THEN watch_resume ELSE UNCHANGED watchVars
    /\ UNCHANGED << running, item, calls, observations, liveConn, sigint >>

\* A step of the generator inside next(); a yield hands the tuple to
\* start().
live_generator ==
    /\ lpc = "next"
    /\ watch_head \/ watch_scan \/ watch_load \/ watch_sleep
    /\ IF wpc' = "yielded"
         THEN lpc' = "check" /\ item' = next_img
         ELSE IF wpc' = "stopped"
                THEN lpc' = "finally" /\ item' = item
                ELSE lpc' = lpc /\ item' = item
    /\ UNCHANGED << running, calls, observations, liveConn, sigint >>

\* if not self._running: break. (watch() never yields None, so the test
\* img is None is never true.)
live_check ==
    /\ lpc = "check"
    /\ lpc' = IF running THEN "process" ELSE "finally"
    /\ UNCHANGED << running, item, calls, observations, liveConn, sigint >>
    /\ UNCHANGED watchVars

\* What the network finds in the picture of file i (the decoded img that
\* watch() yields): pictures with persons and pictures without alternate.
ImageOf(i) == IF i % 2 = 1 THEN << 90, 30, 60 >> ELSE << 40 >>

\* insertObservation: the row is appended when the store takes it, with the
\* count and the confidences _process_image passes from the detector's
\* result.
insert_detection(rows, src, i, result, o) ==
    IF o = "ok"
      THEN Append(rows, [ source |-> src, id |-> i, failed |-> FALSE,
                          persons_detected |-> result.persons_detected,
                          avg_confidence |-> result.avg_confidence,
                          max_confidence |-> result.max_confidence,
                          min_confidence |-> result.min_confidence ])
      ELSE rows

\* _process_image: detector.detect, then insert_detection; an exception of
\* either is caught and printed.
process_image ==
    /\ lpc = "process"
    /\ \E d \in LiveDetectOutcomes, st \in StoreOutcomes :
         LET o == IF liveConn = "open" THEN st ELSE "raise"
         IN  /\ calls' = Append(calls, [ id |-> item, det |-> d, store |-> o ])
             /\ observations' =
                  IF d = "ok"
                    THEN insert_detection(observations,
                                          directory_name(wdir), item,
                                          detect(ImageOf(item)), o)
                    ELSE observations
    /\ lpc' = "for"
    /\ item' = 0
    /\ UNCHANGED << running, liveConn, sigint >>
    /\ UNCHANGED watchVars

\* LiveProcessor.stop without its self.db.close().
LiveProcessor_stop_keeps_connection ==
    /\ lpc = "finally"
    /\ running' = FALSE
    /\ stop_event' = TRUE
    /\ lpc' = "returned"
    /\ UNCHANGED << item, calls, observations, liveConn, sigint >>
    /\ UNCHANGED << locations, dirs, nextId, wpc, wdir, next_img, yielded,
                    failedIds,
                    cycle_yields >>

\* LiveProcessor.stop, called in the finally clause of start().
LiveProcessor_stop ==
    /\ lpc = "finally"
    /\ running' = FALSE
    /\ stop_event' = TRUE
    /\ liveConn' = "closed"
    /\ lpc' = "returned"
    /\ UNCHANGED << item, calls, observations, sigint >>
    /\ UNCHANGED << locations, dirs, nextId, wpc, wdir, next_img, yielded,
                    failedIds,
                    cycle_yields >>

\* LiveProcessor.stop, called by another thread while start() is in its
\* loop.
stop_request ==
    /\ lpc \in LiveTryPcs
    /\ running
    /\ running' = FALSE
    /\ stop_event' = TRUE
    /\ liveConn' = "closed"
    /\ UNCHANGED << lpc, item, calls, observations, sigint >>
    /\ UNCHANGED << locations, dirs, nextId, wpc, wdir, next_img, yielded,
                    failedIds,
                    cycle_yields >>

\* A KeyboardInterrupt inside the try block of start(): except
\* KeyboardInterrupt, then the finally clause.
live_keyboard_interrupt ==
    /\ lpc \in LiveTryPcs
    /\ ~sigint
    /\ sigint' = TRUE
    /\ lpc' = "finally"
    /\ UNCHANGED << running, item, calls, observations, liveConn >>
    /\ UNCHANGED watchVars

\* A new file arrives in an input directory during the session.
live_env_add_file ==
    /\ lpc # "returned"
    /\ env_add_file
    /\ UNCHANGED liveVars

\* ------------------------------------------------------- batch: the size cap
\*
\* process_images from the image list to the call of _execute_processing,
\* with the list and the cap in the state: get_classified_images returns
\* the images in some order (randomize), the empty list ends the run, the
\* cap is applied, the rest is handed on.

VARIABLES
    cappc,                  \* "listed" | "handed" | "returned"
    images,                 \* what get_classified_images returned
    max_images,             \* the parameter of process_images
    handed                  \* the list passed to _execute_processing

capVars == << cappc, images, max_images, handed >>

\* The lists get_classified_images may return: the images of the data
\* directory, each once, in any order.
ImageLists ==
    UNION { { q \in [ 1..n -> 1..MaxImages ] :
                \A i, j \in 1..n : i # j => q[i] # q[j] } :
            n \in 0..MaxImages }

CapInit ==
    /\ cappc = "listed"
    /\ images \in ImageLists
    /\ max_images \in CapArgs
    /\ handed = << >>

CapIdle ==
    /\ cappc = "idle"
    /\ images = << >>
    /\ max_images = NoCap
    /\ handed = << >>

\* if not images: return run_id; if max_images: images =
\* images[:max_images]; return self._execute_processing(run_id, images, ...)
hand_images ==
    /\ cappc = "listed"
    /\ IF images = << >>
         THEN cappc' = "returned" /\ handed' = handed
         ELSE cappc' = "handed" /\ handed' = cap_images(images, max_images)
    /\ UNCHANGED << images, max_images >>

\* -------------------------------------------------- live detection session
\*
\* LiveDetectionProcessor.start drives a DetectionProcessor from the tuples
\* of LiveImageLoader.watch(): the database is set up when the first tuple
\* arrives, every tuple goes through _process_single_image and
\* _save_result. The generator runs only while start() is inside next().
\* detection_results.run_id is a foreign key into ai_runs, so an insert
\* succeeds only under the run_id of a stored run.

VARIABLES
    spc,                    \* position of LiveDetectionProcessor.start
    session_item,           \* file of the tuple start() holds (0: none)
    session_run_id,         \* local variable run_id of start()
    session_setups,         \* run ids handed to _setup_database, in order
    session_runs,           \* run ids of the ai_runs rows of this session
    session_detects,        \* files on which detector.detect was invoked
    session_saves,          \* the dicts handed to _save_result
    session_results,        \* the detection_results rows of this session
    session_sigint          \* a KeyboardInterrupt has been delivered

sessionVars ==
    << spc, session_item, session_run_id, session_setups, session_runs,
       session_detects, session_saves, session_results, session_sigint >>

\* run_id = None
SessionInit ==
    /\ spc = "for"
    /\ session_item = 0
    /\ session_run_id = None
    /\ session_setups = << >>
    /\ session_runs = << >>
    /\ session_detects = << >>
    /\ session_saves = << >>
    /\ session_results = << >>
    /\ session_sigint = FALSE

\* A Python bool, and the string str(time.time()) of the k-th call.
Bool(b) == [ bool |-> b ]

TimeString(k) == [ time |-> k ]

\* Truth value of run_id in `if not run_id`: None and False are falsy.
Truthy(v) == v # None /\ v # Bool(FALSE)

SessionTryPcs == {"for", "next", "item", "detect", "save"}

\* for source, img in self.loader.watch()
session_for ==
    /\ spc = "for"
    /\ spc' = "next"
    /\ IF wpc = "yielded" THEN watch_resume ELSE UNCHANGED watchVars
    /\ UNCHANGED << session_item, session_run_id, session_setups,
                    session_runs, session_detects, session_saves,
                    session_results, session_sigint >>

\* A step of the generator inside next(); a yield hands the tuple to
\* start(). (watch() never yields None.)
session_generator ==
    /\ spc = "next"
    /\ watch_head \/ watch_scan \/ watch_load \/ watch_sleep
    /\ IF wpc' = "yielded"
         THEN spc' = "item" /\ session_item' = next_img
         ELSE IF wpc' = "stopped"
                THEN spc' = "returned" /\ session_item' = session_item
                ELSE spc' = spc /\ session_item' = session_item
    /\ UNCHANGED << session_run_id, session_setups, session_runs,
                    session_detects, session_saves, session_results,
                    session_sigint >>

\* if not run_id: run_id = self.processor._setup_database(
\* run_id=str(time.time())). _setup_database returns a bool: True when
\* connect, create_tables and insert_run succeeded, False otherwise.
session_setup ==
    /\ spc = "item"
    /\ IF Truthy(session_run_id)
         THEN UNCHANGED << session_run_id, session_setups, session_runs >>
         ELSE \E o \in SetupOutcomes :
                LET id == TimeString(Len(session_setups) + 1)
                IN  /\ session_setups' = Append(session_setups, id)
                    /\ session_runs' = IF o = "ok"
                                         THEN Append(session_runs, id)
                                         ELSE session_runs
                    /\ session_run_id' = Bool(o = "ok")
    /\ spc' = "detect"
    /\ UNCHANGED << session_item, session_detects, session_saves,
                    session_results, session_sigint >>
    /\ UNCHANGED watchVars

\* result = self.processor._process_single_image(run_id=run_id, ...): the
\* detector is invoked, its exception is caught inside, the dict carries
\* the run_id it was given.
session_process_single_image ==
    /\ spc = "detect"
    /\ \E o \in LiveDetectOutcomes :
         /\ session_saves' =
              Append(session_saves,
                     [ ResultData(session_item, o,
                                  detect(ImageOf(session_item)))
                       EXCEPT !.run_id = session_run_id ])
    /\ session_detects' = Append(session_detects, session_item)
    /\ spc' = "save"
    /\ UNCHANGED << session_item, session_run_id, session_setups,
                    session_runs, session_results, session_sigint >>
    /\ UNCHANGED watchVars

\* self.processor._save_result(result, db_connected=True): insert_result
\* is called whatever the setup gave; the INSERT fails unless its run_id is
\* that of a row of ai_runs, and _save_result swallows every failure.
session_save_result ==
    /\ spc = "save"
    /\ \E o \in StoreOutcomes :
         LET rd == session_saves[Len(session_saves)]
             known == \E k \in 1..Len(session_runs) :
                         session_runs[k] = rd.run_id
         IN  session_results' =
               insert_result(session_results, rd,
                             IF known THEN o ELSE "false")
    /\ spc' = "for"
    /\ session_item' = 0
    /\ UNCHANGED << session_run_id, session_setups, session_runs,
                    session_detects, session_saves, session_sigint >>
    /\ UNCHANGED watchVars

\* except KeyboardInterrupt: self.stop(), which stops the loader.
session_keyboard_interrupt ==
    /\ spc \in SessionTryPcs
    /\ ~session_sigint
    /\ session_sigint' = TRUE
    /\ spc' = "returned"
    /\ stop_event' = TRUE
    /\ UNCHANGED << session_item, session_run_id, session_setups,
                    session_runs, session_detects, session_saves,
                    session_results >>
    /\ UNCHANGED << locations, dirs, nextId, wpc, wdir, next_img, yielded,
                    failedIds,
                    cycle_yields >>

\* A new file arrives in an input directory during the session.
session_env_add_file ==
    /\ spc # "returned"
    /\ env_add_file
    /\ UNCHANGED sessionVars

\* ------------------------------------------------------------------ pairing
\*
\* TimeSeriesAnalyzer works on Python floats. The model keeps confidences in
\* hundredths and times in tenths of a second and computes with exact
\* integers: x_conf - y_conf of two floats within a factor two of each other
\* is exact, and the quotients of the code are compared or rounded, never
\* stored, except where noted. A confidence that is None in the store is
\* NoConf.

\* Largest person count of a detection.
MaxCount == 7

Counts == 0..MaxCount

\* The confidences of the detections, in hundredths. On these values the
\* float comparisons of the code (x_conf < 0.5, conf_diff > 0.1) come out as
\* the comparisons of the hundredths.
Confidences == { 0, 30, 50, 60, 65, 70, 78, 81, 88, 90, 92, 100 }

\* The time differences of the pairs, x minus y, in tenths of a second.
TimeDiffs == { -50, 0, 2, 25, 60 }

\* self.max_time_diff = 5.0, in tenths of a second
max_time_diff == 50

\* self.confidence_threshold = 0.5, in hundredths
confidence_threshold == 50

\* The threshold an analyzer can be configured with, in hundredths.
Thresholds == { 0, confidence_threshold, 100 }

VARIABLES
    threshold               \* self.confidence_threshold of the analyzer

\* The 0.1 of conf_diff > 0.1, in hundredths
conf_diff_limit == 10

\* What stands for a division by zero where a count is expected.
ZeroDivisionError == -2

\* The unit of a result confidence: (x_conf + y_conf) / 2 * time_penalty
\* with confidences in hundredths and the penalty in max_time_diff-ths.
ConfidenceScale == 2 * 100 * max_time_diff

Abs(n) == IF n < 0 THEN 0 - n ELSE n

Max(a, b) == IF a >= b THEN a ELSE b

\* float(c) if c is not None else 0.0
ConfOf(c) == IF c = NoConf THEN 0 ELSE c

\* Exact ties of the weighted average (equal confidences c, counts lo and
\* lo + 1) on which round() of the float quotient (x*c + y*c) / (c + c)
\* does not give the even neighbour, because the quotient computed in
\* floating point is not lo + 0.5: << lo, c >>.
FloatTieOff ==
    { << 1, 70 >>, << 1, 78 >>, << 3, 30 >>, << 3, 60 >>, << 3, 81 >>,
      << 7, 78 >>, << 2, 81 >>, << 4, 30 >>, << 4, 60 >>, << 6, 88 >> }

\* round(n / d) of Python for n >= 0, d > 0: the nearest integer, the even
\* one at a tie.
RoundHalfEven(n, d) ==
    LET q == n \div d
        r == n % d
    IN  IF 2 * r < d THEN q
        ELSE IF 2 * r > d THEN q + 1
        ELSE IF q % 2 = 0 THEN q ELSE q + 1

\* int(weighted): the quotient cut off.
rounded_weighted_truncated(x, y, xc, yc) ==
    IF xc + yc = 0 THEN ZeroDivisionError
    ELSE (x * xc + y * yc) \div (xc + yc)

\* The weighted sum divided by the larger of the two weights.
rounded_weighted_one_weight(x, y, xc, yc) ==
    IF xc + yc = 0 THEN ZeroDivisionError
    ELSE RoundHalfEven(x * xc + y * yc, Max(xc, yc))

\* int(weighted + 0.5): a tie goes to the larger neighbour.
rounded_weighted_half_up(x, y, xc, yc) ==
    IF xc + yc = 0 THEN ZeroDivisionError
    ELSE (2 * (x * xc + y * yc) + (xc + yc)) \div (2 * (xc + yc))

\* round((x * x_conf + y * y_conf) / (x_conf + y_conf)) for the arguments
\* the last rule of _estimate_actual_persons passes (counts 1 or 2 apart,
\* confidences at most 0.1 apart); ZeroDivisionError when both
\* confidences are 0. The confidences are those of Confidences.
rounded_weighted(x, y, xc, yc) ==
    LET n == x * xc + y * yc
        d == xc + yc
        lo == IF x <= y THEN x ELSE y
    IN  IF d = 0 THEN ZeroDivisionError
        ELSE IF 2 * (n % d) = d /\ << lo, xc >> \in FloatTieOff
          THEN (IF lo % 2 = 0 THEN lo + 1 ELSE lo)
          ELSE RoundHalfEven(n, d)

\* The two counts of an agreeing pair added up.
rule_agreement_sum(x, y) == x + y

\* if x_persons == y_persons: return x_persons
rule_agreement(x, y) == x

\* return x_persons if x_conf < y_conf else y_persons
higher_confidence_side_flipped(x, y, xc, yc) == IF xc < yc THEN x ELSE y

\* The count of the X side, whatever the confidences are.
higher_confidence_side_x(x, y, xc, yc) == x

\* return x_persons if x_conf > y_conf else y_persons
higher_confidence_side(x, y, xc, yc) == IF xc > yc THEN x ELSE y

\* _estimate_actual_persons with the confidence rule ahead of the rule for
\* counts that are far apart.
estimate_actual_persons_conf_first(x, y, xc, yc) ==
    IF x = y THEN rule_agreement(x, y)
    ELSE IF Abs(xc - yc) > conf_diff_limit
      THEN higher_confidence_side(x, y, xc, yc)
    ELSE IF Abs(x - y) > 2 THEN Max(x, y)
    ELSE rounded_weighted(x, y, xc, yc)

\* _estimate_actual_persons: the first rule that matches gives the estimate.
estimate_actual_persons(x, y, xc, yc) ==
    IF x = y THEN rule_agreement(x, y)
    ELSE IF Abs(x - y) > 2 THEN Max(x, y)
    ELSE IF Abs(xc - yc) > conf_diff_limit
      THEN higher_confidence_side(x, y, xc, yc)
    ELSE rounded_weighted(x, y, xc, yc)

\* The gate lets a pair through when one of its confidences reaches the
\* threshold.
gate_discards_both_low(xc, yc) ==
    xc < threshold /\ yc < threshold

\* if x_conf < self.confidence_threshold or y_conf < ...: return None
gate_discards(xc, yc) ==
    xc < threshold \/ yc < threshold

\* 1.0 - time_diff / self.max_time_diff without the lower bound 0.
time_penalty_unbounded(td) == max_time_diff - td

\* max(0.0, 1.0 - (time_diff / self.max_time_diff)), in max_time_diff-ths
time_penalty(td) == Max(0, max_time_diff - td)

\* The estimate is taken with the confidence of the X side scaled by the
\* time penalty.
estimated_persons_penalised(p) ==
    estimate_actual_persons(p.x_persons, p.y_persons,
                            (ConfOf(p.x_confidence)
                               * time_penalty(Abs(p.time_diff)))
                              \div max_time_diff,
                            ConfOf(p.y_confidence))

\* estimated_persons = self._estimate_actual_persons(x_persons, y_persons,
\* x_conf, y_conf)
estimated_persons(p) ==
    estimate_actual_persons(p.x_persons, p.y_persons,
                            ConfOf(p.x_confidence), ConfOf(p.y_confidence))

\* _analyze_pair: None for a pair the gate discards, else the dict handed
\* to insert_correlated_result. confidence is in units of
\* 1 / ConfidenceScale, time_penalty in max_time_diff-ths, weighted_persons
\* in hundredths.
analyze_pair(p) ==
    LET x_persons == p.x_persons
        y_persons == p.y_persons
        x_conf == ConfOf(p.x_confidence)
        y_conf == ConfOf(p.y_confidence)
        time_diff == Abs(p.time_diff)
    IN  IF gate_discards(x_conf, y_conf) THEN None
        ELSE IF x_conf + y_conf = 0 THEN [ error |-> "ZeroDivisionError" ]
        ELSE
          [ source_x_id |-> p.x_id,
            source_y_id |-> p.y_id,
            persons_x |-> x_persons,
            persons_y |-> y_persons,
            estimated_actual |-> estimated_persons(p),
            confidence |-> (x_conf + y_conf) * time_penalty(time_diff),
            time_diff |-> time_diff,
            analysis_data |->
              [ method |-> "weighted_average",
                weighted_persons |->
                    RoundHalfEven(100 * (x_persons * x_conf
                                           + y_persons * y_conf),
                                  x_conf + y_conf),
                time_penalty |-> time_penalty(time_diff),
                x_confidence |-> x_conf,
                y_confidence |-> y_conf,
                difference |-> Abs(x_persons - y_persons),
                agreement |-> (x_persons = y_persons) ] ]

\* ------------------------------------------------- pairing: one pair at a time

VARIABLES
    epc,                    \* "input" | "analyzed" | "estimated"
    pair,                   \* the pair handed to _analyze_pair
    analysis,               \* what _analyze_pair returned
    estimate,               \* what _estimate_actual_persons returned
    twin                    \* a second pair with the counts and confidences
                            \* of the first, and what _analyze_pair returned
                            \* for it

estimateVars == << epc, pair, analysis, estimate, twin, threshold >>

\* The rows get_paired_detections can return for one X and one Y detection.
Pairs ==
    [ x_id : {1}, y_id : {2},
      x_persons : Counts, y_persons : Counts,
      x_confidence : Confidences \cup {NoConf},
      y_confidence : Confidences \cup {NoConf},
      time_diff : TimeDiffs ]

\* An analyzer whose threshold was set to one of Thresholds after its
\* construction.
ConfiguredInit ==
    /\ epc = "input"
    /\ pair \in Pairs
    /\ analysis = None
    /\ estimate = NoConf
    /\ twin = None
    /\ threshold \in Thresholds

EstimateInit ==
    /\ epc = "input"
    /\ pair \in Pairs
    /\ analysis = None
    /\ estimate = NoConf
    /\ twin = None
    /\ threshold = confidence_threshold

\* result = self._analyze_pair(pair)
analyze ==
    /\ epc = "input"
    /\ analysis' = analyze_pair(pair)
    /\ epc' = "analyzed"
    /\ UNCHANGED << pair, estimate, twin, threshold >>

\* The ids a second pair can carry.
TwinIds == { << 1, 2 >>, << 3, 4 >> }

\* result = self._analyze_pair(pair) for a later pair of the list that has
\* the counts and confidences of the first one, with any ids and any time
\* difference.
analyze_twin ==
    /\ epc = "analyzed"
    /\ \E ids \in TwinIds, td \in TimeDiffs :
         LET p == [ pair EXCEPT !.x_id = ids[1], !.y_id = ids[2],
                                !.time_diff = td ]
         IN  twin' = [ pair |-> p, analysis |-> analyze_pair(p) ]
    /\ epc' = "twinned"
    /\ UNCHANGED << pair, analysis, estimate, threshold >>

\* self._estimate_actual_persons(x_persons, y_persons, x_conf, y_conf),
\* called on the pair without the gate.
estimate_direct ==
    /\ epc = "input"
    /\ estimate' = estimate_actual_persons(pair.x_persons, pair.y_persons,
                                           ConfOf(pair.x_confidence),
                                           ConfOf(pair.y_confidence))
    /\ epc' = "estimated"
    /\ UNCHANGED << pair, analysis, twin, threshold >>

\* The pair with its two sides exchanged: the ids, counts and confidences
\* change places and the time difference (x minus y) changes its sign.
Swapped(p) ==
    [ x_id |-> p.y_id, y_id |-> p.x_id,
      x_persons |-> p.y_persons, y_persons |-> p.x_persons,
      x_confidence |-> p.y_confidence, y_confidence |-> p.x_confidence,
      time_diff |-> 0 - p.time_diff ]

\* result = self._analyze_pair(pair) for the pair with its sides exchanged.
analyze_swapped ==
    /\ epc = "analyzed"
    /\ twin' = [ pair |-> Swapped(pair),
                 analysis |-> analyze_pair(Swapped(pair)) ]
    /\ epc' = "swapped"
    /\ UNCHANGED << pair, analysis, estimate, threshold >>

\* self._estimate_actual_persons(y_persons, x_persons, y_conf, x_conf),
\* called without the gate.
estimate_swapped ==
    /\ epc = "estimated"
    /\ twin' = [ pair |-> Swapped(pair),
                 estimate |->
                   estimate_actual_persons(pair.y_persons, pair.x_persons,
                                           ConfOf(pair.y_confidence),
                                           ConfOf(pair.x_confidence)) ]
    /\ epc' = "swapped"
    /\ UNCHANGED << pair, analysis, estimate, threshold >>

\* ------------------------------------------------------- pairing: the cycles
\*
\* TimeSeriesAnalyzer.analyze_and_store reads person_detections through
\* DatabaseHandler.get_paired_detections and writes correlated_persons
\* through DatabaseHandler.insert_correlated_result. Neither method is part
\* of src/DatabaseHandler.py; they are modelled after getPairedObservations
\* and insertCorrelatedEstimate of the specification (sections 4.4 and 6).
\* The rows of person_detections are written by the live sessions, which
\* run on their own; here they arrive through env_insert_detection.

\* Largest number of rows of person_detections.
MaxDetections == 2

\* Largest number of cycles of one analyze_and_store call.
MaxCycles == 2

\* limit of the get_paired_detections call: 100 in the code, scaled to the
\* number of pairs the stores of the model hold.
limit == 2

\* Largest number of rows of person_detections that a single-shot call
\* finds in the store.
MaxStored == 4

\* The times at which detections are stored, in tenths of a second.
Times == { 0, 10, 60 }

\* The counts and confidences of the stored detections.
StoredCounts == { 2, 3 }

StoredConfidences == { 30, 70 }

VARIABLES
    apc,                    \* position of analyze_and_store
    continuous,             \* its parameter
    cycles,                 \* analysis_count
    detections,             \* the rows of person_detections
    correlated,             \* the rows of correlated_persons
    lastPairs,              \* the pairs of the last get_paired_detections
    pairConn,               \* self.db.connection: "none" | "open" | "closed"
    pair_sigint             \* a KeyboardInterrupt has ended analyze_and_store

pairVars ==
    << apc, continuous, cycles, detections, correlated, lastPairs,
       pairConn, pair_sigint >>

PairInit ==
    /\ apc = "start"
    /\ continuous \in BOOLEAN
    /\ cycles = 0
    /\ detections = << >>
    /\ correlated = << >>
    /\ lastPairs = << >>
    /\ pairConn = "none"
    /\ pair_sigint = FALSE

\* The cross product of the X rows and the Y rows of the store, with the
\* columns _analyze_pair reads; time_diff is x minus y.
CrossProduct(rows) ==
    { [ x_id |-> rows[i].id, y_id |-> rows[j].id,
        x_persons |-> rows[i].persons, y_persons |-> rows[j].persons,
        x_confidence |-> rows[i].confidence,
        y_confidence |-> rows[j].confidence,
        time_diff |-> rows[i].time - rows[j].time ] :
      i \in { k \in 1..Len(rows) : rows[k].source = "X" },
      j \in { k \in 1..Len(rows) : rows[k].source = "Y" } }

Min(a, b) == IF a <= b THEN a ELSE b

\* getPairedObservations: the pairs of the cross product within maxDiff,
\* ascending by |time_diff|, at most lim of them. The order of pairs with
\* the same |time_diff| is not fixed, so the result is one of a set.
get_paired_detections(rows, maxDiff, lim) ==
    LET window == { p \in CrossProduct(rows) : Abs(p.time_diff) <= maxDiff }
        n == Min(lim, Cardinality(window))
    IN  { q \in [ 1..n -> window ] :
            /\ \A i, j \in 1..n : i # j => q[i] # q[j]
            /\ \A i, j \in 1..n :
                  i < j => Abs(q[i].time_diff) <= Abs(q[j].time_diff)
            /\ \A p \in window :
                  (\A i \in 1..n : q[i] # p) =>
                     \A i \in 1..n :
                        Abs(q[i].time_diff) <= Abs(p.time_diff) }

\* The elements of s at the places of keep, in their order.
RECURSIVE Pick(_, _)
Pick(s, keep) ==
    IF s = << >> THEN << >>
    ELSE LET front == Pick(SubSeq(s, 1, Len(s) - 1), keep)
         IN  IF Len(s) \in keep THEN Append(front, s[Len(s)]) ELSE front

\* The loop over the pairs, skipping a pair when one of its detections is
\* already part of an earlier result.
AnalyzeAll_consuming(pairs) ==
    LET all == [ k \in 1..Len(pairs) |-> analyze_pair(pairs[k]) ]
        fresh(k) == \A j \in 1..(k - 1) :
                       \/ all[j] = None
                       \/ /\ pairs[j].x_id # pairs[k].x_id
                          /\ pairs[j].y_id # pairs[k].y_id
    IN  Pick(all, { k \in 1..Len(pairs) : all[k] # None /\ fresh(k) })

\* The loop over the pairs, left after the first of them.
AnalyzeAll_first_only(pairs) ==
    IF pairs = << >> THEN << >>
    ELSE IF analyze_pair(pairs[1]) = None THEN << >>
         ELSE << analyze_pair(pairs[1]) >>

\* results: the _analyze_pair result of every pair that has one.
AnalyzeAll(pairs) ==
    SelectSeq([ k \in 1..Len(pairs) |-> analyze_pair(pairs[k]) ],
              LAMBDA r : r # None)

\* insertCorrelatedEstimate: the row is stored, or nothing is stored and
\* the call returns false.
insert_correlated_result(rows, result, ok) ==
    IF ok THEN Append(rows, result) ELSE rows

\* if not self.db.connect(): return
pairing_start ==
    /\ apc = "start"
    /\ \E ok \in BOOLEAN :
         /\ pairConn' = IF ok THEN "open" ELSE "none"
         /\ apc' = IF ok THEN "cycle" ELSE "returned"
    /\ UNCHANGED << continuous, cycles, detections, correlated, lastPairs,
                    pair_sigint >>

\* The loop is left after every pass.
after_cycle_break(cont) == "closed"

\* if not continuous: break
after_cycle(cont) == IF cont THEN "sleep" ELSE "closed"

\* One pass of the while loop up to "if not continuous: break": the pairs
\* are fetched and analysed, and every result is handed to
\* insert_correlated_result, which stores it or fails.
pairing_cycle ==
    /\ apc = "cycle"
    /\ cycles < MaxCycles
    /\ \E pairs \in get_paired_detections(detections, max_time_diff, limit) :
         LET analysed == AnalyzeAll(pairs)
         IN  /\ lastPairs' = pairs
             /\ \E stored \in SUBSET (1..Len(analysed)) :
                  correlated' = correlated \o Pick(analysed, stored)
    /\ cycles' = cycles + 1
    /\ apc' = after_cycle(continuous)
    /\ pairConn' = IF apc' = "closed" THEN "closed" ELSE pairConn
    /\ UNCHANGED << continuous, detections, pair_sigint >>

\* time.sleep(interval_seconds)
pairing_sleep ==
    /\ apc = "sleep"
    /\ apc' = "cycle"
    /\ UNCHANGED << continuous, cycles, detections, correlated, lastPairs,
                    pairConn, pair_sigint >>

\* except KeyboardInterrupt, then finally: self.db.close()
pairing_keyboard_interrupt ==
    /\ apc \in {"cycle", "sleep"}
    /\ apc' = "closed"
    /\ pairConn' = "closed"
    /\ pair_sigint' = TRUE
    /\ UNCHANGED << continuous, cycles, detections, correlated, lastPairs >>

\* A live session stores a detection.
env_insert_detection ==
    /\ Len(detections) < MaxDetections
    /\ \E src \in Dirs, t \in Times, n \in StoredCounts,
          c \in StoredConfidences \cup {NoConf} :
         /\ \A k \in 1..Len(detections) : detections[k].time <= t
         /\ detections' =
              Append(detections,
                     [ id |-> Len(detections) + 1, source |-> src,
                       time |-> t, persons |-> n, confidence |-> c ])
    /\ UNCHANGED << apc, continuous, cycles, correlated, lastPairs,
                    pairConn, pair_sigint >>

\* ---------------------------------------------------------- specifications

\* The single-pair machine and the pairing cycles at rest.
EstimateIdle ==
    /\ epc = "idle"
    /\ pair = None
    /\ analysis = None
    /\ estimate = NoConf
    /\ twin = None
    /\ threshold = confidence_threshold

PairIdle ==
    /\ apc = "idle"
    /\ continuous = FALSE
    /\ cycles = 0
    /\ detections = << >>
    /\ correlated = << >>
    /\ lastPairs = << >>
    /\ pairConn = "none"
    /\ pair_sigint = FALSE

vars ==
    << batchVars, capVars, watchVars, liveVars, sessionVars, estimateVars,
       pairVars >>

\* The variables a specification of one part leaves alone.
nonBatchVars ==
    << capVars, watchVars, liveVars, sessionVars, estimateVars, pairVars >>

nonWatchVars ==
    << capVars, batchVars, liveVars, sessionVars, estimateVars, pairVars >>

nonLiveVars ==
    << batchVars, capVars, sessionVars, estimateVars, pairVars >>

nonSessionVars ==
    << batchVars, capVars, liveVars, estimateVars, pairVars >>

nonCapVars ==
    << batchVars, watchVars, liveVars, sessionVars, estimateVars, pairVars >>

nonEstimateVars ==
    << capVars, batchVars, watchVars, liveVars, sessionVars, pairVars >>

nonPairVars ==
    << capVars, batchVars, watchVars, liveVars, sessionVars, estimateVars >>

OthersInit == BatchInit /\ CapIdle /\ WatchInit /\ LiveInit /\ SessionInit

InitBatch == OthersInit /\ EstimateIdle /\ PairIdle

NextBatch ==
    \/ setup_database /\ UNCHANGED nonBatchVars
    \/ load_images /\ UNCHANGED nonBatchVars
    \/ loop_next /\ UNCHANGED nonBatchVars
    \/ process_single_image /\ UNCHANGED nonBatchVars
    \/ record_processing_time /\ UNCHANGED nonBatchVars
    \/ count_result /\ UNCHANGED nonBatchVars
    \/ save_result /\ UNCHANGED nonBatchVars
    \/ finalize_processing /\ UNCHANGED nonBatchVars
    \/ keyboard_interrupt /\ UNCHANGED nonBatchVars

SpecBatch == InitBatch /\ [][NextBatch]_vars

InitWatch == OthersInit /\ EstimateIdle /\ PairIdle

NextWatch ==
    \/ watch_head /\ UNCHANGED nonWatchVars
    \/ watch_scan /\ UNCHANGED nonWatchVars
    \/ watch_load /\ UNCHANGED nonWatchVars
    \/ watch_resume /\ UNCHANGED nonWatchVars
    \/ watch_sleep /\ UNCHANGED nonWatchVars
    \/ stop /\ UNCHANGED nonWatchVars
    \/ env_add_file /\ UNCHANGED nonWatchVars
    \/ env_remove_file /\ UNCHANGED nonWatchVars
    \/ env_fix_file /\ UNCHANGED nonWatchVars

SpecWatch == InitWatch /\ [][NextWatch]_vars

\* The generator runs whenever it can, and the consumer of watch() keeps
\* asking for the next item.
WatchGenerator ==
    (watch_head \/ watch_scan \/ watch_load \/ watch_sleep)
       /\ UNCHANGED nonWatchVars

WatchConsumer == watch_resume /\ UNCHANGED nonWatchVars

SpecWatchFair ==
    /\ InitWatch
    /\ [][NextWatch]_vars
    /\ WF_vars(WatchGenerator)
    /\ WF_vars(WatchConsumer)

InitLocated ==
    /\ BatchInit /\ CapIdle /\ LocatedInit /\ LiveInit /\ SessionInit
    /\ EstimateIdle /\ PairIdle

SpecLocated == InitLocated /\ [][NextWatch]_vars

InitLive == OthersInit /\ EstimateIdle /\ PairIdle

NextLive ==
    \/ live_start /\ UNCHANGED nonLiveVars
    \/ live_for /\ UNCHANGED nonLiveVars
    \/ live_generator /\ UNCHANGED nonLiveVars
    \/ live_check /\ UNCHANGED nonLiveVars
    \/ process_image /\ UNCHANGED nonLiveVars
    \/ LiveProcessor_stop /\ UNCHANGED nonLiveVars
    \/ stop_request /\ UNCHANGED nonLiveVars
    \/ live_keyboard_interrupt /\ UNCHANGED nonLiveVars
    \/ live_env_add_file /\ UNCHANGED nonLiveVars

SpecLive == InitLive /\ [][NextLive]_vars

InitEstimate == OthersInit /\ EstimateInit /\ PairIdle

NextEstimate ==
    \/ analyze /\ UNCHANGED nonEstimateVars
    \/ estimate_direct /\ UNCHANGED nonEstimateVars

SpecEstimate == InitEstimate /\ [][NextEstimate]_vars

NextTwin ==
    \/ analyze /\ UNCHANGED nonEstimateVars
    \/ analyze_twin /\ UNCHANGED nonEstimateVars

SpecTwin == InitEstimate /\ [][NextTwin]_vars

NextSwap ==
    \/ analyze /\ UNCHANGED nonEstimateVars
    \/ estimate_direct /\ UNCHANGED nonEstimateVars
    \/ analyze_swapped /\ UNCHANGED nonEstimateVars
    \/ estimate_swapped /\ UNCHANGED nonEstimateVars

SpecSwap == InitEstimate /\ [][NextSwap]_vars

InitConfigured == OthersInit /\ ConfiguredInit /\ PairIdle

NextConfigured == analyze /\ UNCHANGED nonEstimateVars

SpecConfigured == InitConfigured /\ [][NextConfigured]_vars

InitPair == OthersInit /\ EstimateIdle /\ PairInit

NextPair ==
    \/ pairing_start /\ UNCHANGED nonPairVars
    \/ pairing_cycle /\ UNCHANGED nonPairVars
    \/ pairing_sleep /\ UNCHANGED nonPairVars
    \/ pairing_keyboard_interrupt /\ UNCHANGED nonPairVars
    \/ env_insert_detection /\ UNCHANGED nonPairVars

SpecPair == InitPair /\ [][NextPair]_vars

InitCap ==
    /\ BatchInit /\ WatchInit /\ LiveInit /\ SessionInit
    /\ EstimateIdle /\ PairIdle
    /\ CapInit

NextCap == hand_images /\ UNCHANGED nonCapVars

SpecCap == InitCap /\ [][NextCap]_vars

InitSession == OthersInit /\ EstimateIdle /\ PairIdle

NextSession ==
    \/ session_for /\ UNCHANGED nonSessionVars
    \/ session_generator /\ UNCHANGED nonSessionVars
    \/ session_setup /\ UNCHANGED nonSessionVars
    \/ session_process_single_image /\ UNCHANGED nonSessionVars
    \/ session_save_result /\ UNCHANGED nonSessionVars
    \/ session_keyboard_interrupt /\ UNCHANGED nonSessionVars
    \/ session_env_add_file /\ UNCHANGED nonSessionVars

SpecSession == InitSession /\ [][NextSession]_vars

\* A single-shot analyze_and_store call on a store that the live sessions
\* have filled before: the rows carry their ids in the order of their
\* times; camera X saw two persons throughout, camera Y two or three.
InitSingleShot ==
    /\ OthersInit
    /\ EstimateIdle
    /\ apc = "start"
    /\ continuous = FALSE
    /\ cycles = 0
    /\ \E n \in 0..MaxStored :
         \E src \in [ 1..n -> Dirs ], t \in [ 1..n -> Times ],
            persons \in { f \in [ Dirs -> StoredCounts ] : f["X"] = 2 },
            c \in [ 1..n -> StoredConfidences ] :
           /\ \A i, j \in 1..n : i < j => t[i] <= t[j]
           /\ detections =
                [ k \in 1..n |->
                    [ id |-> k, source |-> src[k], time |-> t[k],
                      persons |-> persons[src[k]],
                      confidence |-> c[k] ] ]
    /\ correlated = << >>
    /\ lastPairs = << >>
    /\ pairConn = "none"
    /\ pair_sigint = FALSE

NextSingleShot ==
    \/ pairing_start /\ UNCHANGED nonPairVars
    \/ pairing_cycle /\ UNCHANGED nonPairVars
    \/ pairing_keyboard_interrupt /\ UNCHANGED nonPairVars

SpecSingleShot == InitSingleShot /\ [][NextSingleShot]_vars

\* The core as a whole: one of its three programs runs against the store
\* (process_images, LiveProcessor.start or analyze_and_store); the other
\* two are not started.
BatchIdle ==
    /\ pc = "idle"
    /\ total = -1
    /\ idx = 0
    /\ db_connected = FALSE
    /\ conn = "none"
    /\ runRow = NoRow
    /\ results = << >>
    /\ processed = << >>
    /\ result_data = NoResult
    /\ successful_detections = 0
    /\ failed_detections = 0
    /\ processing_times = 0
    /\ status = "none"
    /\ updates = 0
    /\ saves = 0
    /\ finalized = 0
    /\ ret = NoRunId
    /\ interrupts = 0
    /\ interruptedAt = "none"
    /\ detLog = << >>
    /\ insertFailed = FALSE
    /\ updateFailed = FALSE

LiveIdle ==
    /\ lpc = "idle"
    /\ running = FALSE
    /\ item = 0
    /\ calls = << >>
    /\ observations = << >>
    /\ liveConn = "none"
    /\ sigint = FALSE

InitCore ==
    /\ CapIdle
    /\ WatchInit
    /\ SessionInit
    /\ EstimateIdle
    /\ \/ BatchInit /\ LiveIdle /\ PairIdle
       \/ BatchIdle /\ LiveInit /\ PairIdle
       \/ BatchIdle /\ LiveIdle /\ PairInit

NextCore ==
    \/ pc # "idle" /\ NextBatch
    \/ lpc # "idle" /\ NextLive
    \/ apc # "idle" /\ NextPair

SpecCore == InitCore /\ [][NextCore]_vars


\* ------------------------------------------------------- batch run: claims

Faulted == "fault" \in Range(detLog)

Counted == successful_detections + failed_detections

\* C1: at most one completion update (update_run_completion) is issued for
\* the run, whatever the item outcomes, storage failures and interrupts,
\* and once the Run row has a terminal status no step changes the row.
C1_SingleCompletion ==
    [][ /\ updates' <= 1
        /\ (runRow.status \in Terminal => runRow' = runRow) ]_vars

C1_Witness ==
    /\ pc = "done"
    /\ updates = 1
    /\ runRow.status = "cancelled"
    /\ insertFailed

\* C2: when process_images has returned and a Run row was inserted in
\* status running, a completion update was issued and the row is terminal
\* (unless the repository failed on that update).
C2_TerminalBeforeReturn ==
    (pc = "done" /\ runRow.status # "none")
        => /\ updates >= 1
           /\ (runRow.status \in Terminal \/ updateFailed)

\* C3: a detector failure on item i is caught at the per-item step: the
\* outcome built for i has success false, the error text and no model
\* output; it is counted as failed and handed to _save_result, and a stored
\* row carries the same fields; every later item is still processed and,
\* nothing else going wrong, the run ends completed.
C3_DetectorFailureContained ==
    /\ (pc = "count" /\ detLog[idx] = "detfail")
          => /\ result_data.item = idx
             /\ ~result_data.success
             /\ result_data.error_message
             /\ result_data.model_output = None
             /\ status = "completed"
    /\ failed_detections
          = CountOf(SubSeq(detLog, 1, Counted), "detfail")
    /\ \A k \in 1..Len(results) :
          detLog[results[k].item] = "detfail"
             => /\ ~results[k].success
                /\ results[k].error_message
                /\ results[k].model_output = None
    /\ (pc = "done" /\ finalized = 1 /\ interruptedAt = "none" /\ ~Faulted)
          => /\ status = "completed"
             /\ processed = [ i \in 1..total |-> i ]
             /\ Len(detLog) = total
             /\ saves = total
             /\ Counted = total
             /\ (db_connected /\ ~insertFailed => Len(results) = total)

C3_Witness ==
    /\ pc = "done"
    /\ status = "completed"
    /\ Len(detLog) = 3
    /\ detLog[1] = "detfail"
    /\ Len(results) = 3
    /\ ~results[1].success
    /\ runRow.status = "completed"

\* C4 as claimed: after a failure that escaped the per-item step the run is
\* failed and the completion update was issued exactly once.
C4_UpdateIssuedOnce ==
    (pc = "done" /\ Faulted) => (status = "failed" /\ updates = 1)

\* C4 as amended: a failure that escapes the per-item step ends the loop
\* (no later item is processed) with status failed; _finalize_processing
\* runs once and issues the completion update exactly once when the Run
\* row was inserted at the start, and not at all when the setup had
\* failed; the update carries the counters accumulated so far.
C4_FaultAbortsRun ==
    Faulted =>
        /\ pc \in {"finalize", "done", "raised"}
        /\ status = "failed"
        /\ detLog[Len(detLog)] = "fault"
        /\ Len(detLog) = idx
        /\ Len(processed) = idx
        /\ Counted = idx - 1
        /\ (pc = "done" =>
              /\ finalized = 1
              /\ updates = (IF db_connected THEN 1 ELSE 0)
              /\ (db_connected /\ ~updateFailed =>
                    runRow = [ run_id |-> RunId, status |-> "failed",
                               total_images |-> total,
                               successful_detections |->
                                   CountOf(detLog, "ok"),
                               failed_detections |->
                                   CountOf(detLog, "detfail") ]))

C4_Witness ==
    /\ pc = "done"
    /\ Faulted
    /\ total = 3
    /\ Len(detLog) = 2
    /\ updates = 1
    /\ runRow.status = "failed"
    /\ runRow.successful_detections = 1

C6_SetupFailureDoesNotBlock ==
    (pc = "done" /\ ~db_connected /\ interruptedAt = "none" /\ ~Faulted)
        => /\ ret = RunId
           /\ processed = [ i \in 1..total |-> i ]
           /\ Len(detLog) = total
           /\ Counted = total

C6_Witness ==
    /\ pc = "done"
    /\ ~db_connected
    /\ conn = "open"
    /\ total = 3
    /\ Len(processed) = 3
    /\ failed_detections = 1
    /\ ret = RunId

\* C7: the status handed to _finalize_processing and the two counters are
\* determined by the detector outcomes and the interrupt alone: a failing
\* insert_result or update_run_completion leaves them as they are in the
\* run where storage succeeds.
C7_StorageFailureNeutral ==
    (pc = "finalize" \/ (pc = "done" /\ finalized = 1)) =>
        /\ status = (IF interruptedAt \in LoopPcs THEN "cancelled"
                     ELSE IF Faulted THEN "failed" ELSE "completed")
        /\ successful_detections
              = CountOf(SubSeq(detLog, 1, Counted), "ok")
        /\ failed_detections
              = CountOf(SubSeq(detLog, 1, Counted), "detfail")

C7_Witness ==
    /\ pc = "done"
    /\ insertFailed
    /\ updateFailed
    /\ status = "completed"
    /\ successful_detections >= 1
    /\ failed_detections >= 1



\* ---------------------------------------------------- image source: claims

AllIds == Ids(dirs["X"]) \cup Ids(dirs["Y"])

\* A step of watch() itself (every one moves the generator or its for loop).
WatchStep == << wpc, wdir >>' # << wpc, wdir >>

\* The file selected by a scan is the first eligible file of the directory
\* as it is enumerated at that moment, and none is selected only when the
\* directory holds no eligible file.
ScanPicksFirst ==
    (wpc = "scan" /\ WatchStep) =>
        LET files == dirs[wdir]
        IN  IF next_img' = 0
              THEN \A k \in 1..Len(files) : ~files[k].eligible
              ELSE \E k \in 1..Len(files) :
                      /\ files[k].id = next_img'
                      /\ files[k].eligible
                      /\ \A j \in 1..(k - 1) : ~files[j].eligible

\* The first eligible file of a directory exists and does not decode.
Blocked(files) ==
    \E k \in 1..Len(files) :
        /\ files[k].eligible
        /\ ~files[k].decodable
        /\ \A j \in 1..(k - 1) : ~files[j].eligible

\* C8: a file is delivered at most once: the file of every yielded tuple
\* is gone from the input directories when the tuple is yielded (and stays
\* gone), and no file is yielded twice.
C8_AtMostOnceDelivery ==
    /\ \A k \in 1..Len(yielded) : yielded[k].id \notin AllIds
    /\ \A j, k \in 1..Len(yielded) : j # k => yielded[j].id # yielded[k].id

C8_Witness ==
    /\ Len(yielded) = 2
    /\ yielded[1].source = "X"
    /\ yielded[2].source = "X"
    /\ wpc = "yielded"

\* C9: when the decode of the selected file fails, the step leaves both
\* directories as they are and yields nothing; no step of watch() ever
\* removes a file that does not decode; and every scan selects the first
\* eligible file, so the same file is selected again as long as it is the
\* first eligible match.
C9_UndecodableFileRetained ==
    [][ /\ (wpc = "load" /\ WatchStep /\ ~Decodes(dirs[wdir], next_img))
              => /\ dirs' = dirs
                 /\ yielded' = yielded
                 /\ wpc' # "yielded"
        /\ WatchStep =>
              \A d \in Dirs : \A k \in 1..Len(dirs[d]) :
                  ~dirs[d][k].decodable => dirs[d][k].id \in Ids(dirs'[d])
        /\ ScanPicksFirst ]_vars

\* The scan has selected again a file whose decode had failed before.
C9_Witness ==
    /\ wpc = "load"
    /\ next_img \in failedIds
    /\ \E k \in 1..Len(dirs[wdir]) :
          /\ dirs[wdir][k].id = next_img
          /\ ~dirs[wdir][k].decodable
    /\ yielded = << >>

\* C10 as claimed: while an undecodable file is the first eligible match of
\* a location, no file of that location is yielded.
C10_BlockedNeverYields ==
    [][ yielded' # yielded => ~Blocked(dirs[wdir]) ]_vars

\* C10 as amended: every scan selects the first eligible file of its
\* location, and a tuple is yielded only for the file the scan of the same
\* cycle selected, after it decoded; so while an undecodable file is the
\* first eligible match no scan selects another file of the location, and
\* the only file that can still be yielded is one a scan had selected
\* before the undecodable file appeared in front of it.
C10_OnlyScannedMatchYields ==
    [][ /\ ScanPicksFirst
        /\ yielded' # yielded =>
              /\ wpc = "load"
              /\ Len(yielded') = Len(yielded) + 1
              /\ yielded'[Len(yielded')] = [ source |-> wdir, id |-> next_img ]
              /\ Decodes(dirs[wdir], next_img) ]_vars

\* A decodable file waits behind a file whose decode has failed and which
\* the scan has selected again.
C10_Witness ==
    /\ wpc = "load"
    /\ wdir = "Y"
    /\ next_img \in failedIds
    /\ Len(dirs["Y"]) = 2
    /\ dirs["Y"][1].id = next_img
    /\ ~dirs["Y"][1].decodable
    /\ dirs["Y"][2].eligible
    /\ dirs["Y"][2].decodable
    /\ \A k \in 1..Len(yielded) : yielded[k].source # "Y"

\* C11: in every pass of the while body of watch() each directory yields at
\* most one item, so a pass yields at most two, however many eligible files
\* wait in a directory.
C11_OnePerLocationPerCycle ==
    /\ Len(cycle_yields) <= 2
    /\ \A j, k \in 1..Len(cycle_yields) :
          j # k => cycle_yields[j] # cycle_yields[k]

\* dir_x has yielded in this pass, the loop has gone on to dir_y, and dir_x
\* still holds an eligible file that decodes.
C11_Witness ==
    /\ cycle_yields = << "X" >>
    /\ wdir = "Y"
    /\ wpc = "scan"
    /\ \E k \in 1..Len(dirs["X"]) :
          dirs["X"][k].eligible /\ dirs["X"][k].decodable

\* C12: the stop event is looked at only at the head of the while loop:
\* the generator ends only from there, with the event set it starts no
\* further pass, a _load_and_delete that has begun ends as it would
\* without the event, and once the event is set the generator ends if it
\* keeps being resumed.
C12_StopAtCycleBoundary ==
    /\ [][ (wpc' = "stopped" /\ wpc # "stopped")
              => (wpc = "head" /\ stop_event) ]_vars
    /\ [][ (stop_event /\ wpc = "head") => wpc' # "scan" ]_vars
    /\ [][ (stop_event /\ wpc = "load" /\ WatchStep) =>
              \E unlinkOk \in BOOLEAN :
                 LET r == load_and_delete(dirs[wdir], next_img, unlinkOk)
                 IN  /\ dirs' = [ dirs EXCEPT ![wdir] = r.files ]
                     /\ (r.img <=> wpc' = "yielded") ]_vars
    /\ (stop_event ~> (wpc = "stopped"))

\* The generator has ended on the event after it had yielded, and it has
\* left an eligible file that decodes behind.
C12_Witness ==
    /\ wpc = "stopped"
    /\ stop_event
    /\ Len(yielded) >= 1
    /\ \E d \in Dirs : \E k \in 1..Len(dirs[d]) :
          dirs[d][k].eligible /\ dirs[d][k].decodable

\* ----------------------------------------------------- live session: claims

CallsOf(i) == { j \in 1..Len(calls) : calls[j].id = i }

ObservationsOf(i) ==
    { k \in 1..Len(observations) : observations[k].id = i }

\* C13: every tuple watch() has yielded is passed to _process_image exactly
\* once: no file is processed twice, and when start() has returned every
\* yielded tuple has been processed.
C13_EveryTupleDetected ==
    /\ \A k \in 1..Len(yielded) : Cardinality(CallsOf(yielded[k].id)) <= 1
    /\ lpc = "returned" =>
         \A k \in 1..Len(yielded) : Cardinality(CallsOf(yielded[k].id)) = 1

\* C14: every _process_image call whose storage works leaves exactly one
\* row in person_detections, whether the detector failed or not.
C14_OneObservationPerCall ==
    \A j \in 1..Len(calls) :
       calls[j].store = "ok" =>
          Cardinality(ObservationsOf(calls[j].id)) = 1

\* ---------------------------------------------------------- pairing: claims

\* C15: every row of correlated_persons comes from an X detection and a Y
\* detection that are at most max_time_diff apart and whose confidences
\* both reach confidence_threshold; a fetched pair with a confidence below
\* the threshold leaves no row.
C15_PersistedPairsPassGate ==
    /\ \A k \in 1..Len(correlated) :
          LET dx == detections[correlated[k].source_x_id]
              dy == detections[correlated[k].source_y_id]
          IN  /\ dx.source = "X"
              /\ dy.source = "Y"
              /\ Abs(dx.time - dy.time) <= max_time_diff
              /\ ConfOf(dx.confidence) >= confidence_threshold
              /\ ConfOf(dy.confidence) >= confidence_threshold
    /\ \A i \in 1..Len(lastPairs) :
          (\/ ConfOf(lastPairs[i].x_confidence) < confidence_threshold
           \/ ConfOf(lastPairs[i].y_confidence) < confidence_threshold)
            => \A k \in 1..Len(correlated) :
                  \/ correlated[k].source_x_id # lastPairs[i].x_id
                  \/ correlated[k].source_y_id # lastPairs[i].y_id

\* A pair at the edge of the window has been persisted.
C15_Witness ==
    /\ Len(correlated) = 1
    /\ correlated[1].time_diff = max_time_diff

\* The pair of the single-pair machine as _estimate_actual_persons sees it.
X == pair.x_persons

Y == pair.y_persons

XConf == ConfOf(pair.x_confidence)

YConf == ConfOf(pair.y_confidence)

\* The estimate holds for the pair: the one _estimate_actual_persons
\* returned when called directly, and the one in the dict of _analyze_pair.
EstimateIs(e) ==
    /\ epc = "estimated" => estimate = e
    /\ (epc = "analyzed" /\ analysis # None) => analysis.estimated_actual = e

Estimated == epc = "estimated" \/ (epc = "analyzed" /\ analysis # None)

\* C16: for a pair with equal counts the estimate is that count, whatever
\* the confidences are.
C16_AgreementRule ==
    (Estimated /\ X = Y) => EstimateIs(X)

\* Scenario A, with a confidence below the threshold on the direct call.
C16_Witness ==
    /\ epc = "estimated"
    /\ X = 3 /\ Y = 3
    /\ pair.x_confidence = 30
    /\ estimate = 3

\* C17: for a pair whose counts are more than 2 apart the estimate is the
\* larger count, also when the side with the smaller count has the higher
\* confidence.
C17_FarApartTakesMax ==
    (Estimated /\ Abs(X - Y) > 2) => EstimateIs(Max(X, Y))

\* The smaller count comes with the confidence that is higher by more than
\* 0.1, and the estimate is the larger count.
C17_Witness ==
    /\ epc = "analyzed"
    /\ X = 1 /\ Y = 5
    /\ XConf = 92 /\ YConf = 60
    /\ analysis # None
    /\ analysis.estimated_actual = 5

\* C18: for a pair whose counts are 1 or 2 apart and whose confidences are
\* more than 0.1 apart the estimate is the count of the side with the
\* higher confidence.
C18_HigherConfidenceWins ==
    (Estimated /\ Abs(X - Y) \in {1, 2} /\ Abs(XConf - YConf) > conf_diff_limit)
       => EstimateIs(IF XConf > YConf THEN X ELSE Y)

\* Scenario C.
C18_Witness ==
    /\ epc = "analyzed"
    /\ X = 2 /\ Y = 4
    /\ XConf = 65 /\ YConf = 88
    /\ analysis # None
    /\ analysis.estimated_actual = 4

\* e is an integer nearest to n / d.
Nearest(e, n, d) == 2 * Abs(e * d - n) <= d

\* C19: for a pair whose counts are 1 or 2 apart and whose confidences are
\* at most 0.1 apart (and not both 0) the estimate is an integer nearest to
\* the confidence-weighted average of the counts.
C19_WeightedAverageRounded ==
    (/\ Estimated
     /\ Abs(X - Y) \in {1, 2}
     /\ Abs(XConf - YConf) <= conf_diff_limit
     /\ XConf + YConf > 0)
       => \E e \in Counts :
             /\ EstimateIs(e)
             /\ Nearest(e, X * XConf + Y * YConf, XConf + YConf)

\* Scenario B.
C19_Witness ==
    /\ epc = "analyzed"
    /\ X = 5 /\ Y = 4
    /\ XConf = 78 /\ YConf = 81
    /\ analysis # None
    /\ analysis.estimated_actual = 4

\* C20: for a pair that passes the gate the result confidence is the mean
\* of the two confidences times the time penalty
\* max(0, 1 - |time_diff| / max_time_diff): the penalty lies in [0, 1], the
\* result confidence lies in [0, 1] and is at most the mean of the two
\* confidences, and it is 0 at |time_diff| = max_time_diff.
C20_ResultConfidence ==
    (epc = "analyzed" /\ analysis # None) =>
       LET td == Abs(pair.time_diff)
           tp == analysis.analysis_data.time_penalty
           rc == analysis.confidence
       IN  /\ tp = (IF td >= max_time_diff THEN 0 ELSE max_time_diff - td)
           /\ rc = (XConf + YConf) * tp
           /\ 0 <= tp /\ tp <= max_time_diff
           /\ 0 <= rc /\ rc <= ConfidenceScale
           /\ rc * 2 * 100 <= (XConf + YConf) * ConfidenceScale
           /\ td = max_time_diff => rc = 0

\* Scenario D at the edge of the window.
C20_Witness ==
    /\ epc = "analyzed"
    /\ X = 7 /\ Y = 7
    /\ XConf = 92 /\ YConf = 90
    /\ Abs(pair.time_diff) = max_time_diff
    /\ analysis # None
    /\ analysis.confidence = 0
    /\ analysis.estimated_actual = 7

\* Both pairs of the single-pair machine have come through the gate.
Twinned == epc = "twinned" /\ analysis # None /\ twin.analysis # None

\* C21 as stated: two pairs with the same counts and confidences get the
\* same estimate and the same analysis_data, whatever their time
\* differences and ids.
C21_SameInputsSameMetadata ==
    Twinned =>
       /\ twin.analysis.estimated_actual = analysis.estimated_actual
       /\ twin.analysis.analysis_data = analysis.analysis_data

\* C21, amended: the estimate and every entry of analysis_data other than
\* time_penalty are the same for the two pairs; time_penalty is the same
\* when the two time differences have the same absolute value.
C21_EstimateIsPure ==
    Twinned =>
       LET a == analysis.analysis_data
           b == twin.analysis.analysis_data
       IN  /\ twin.analysis.estimated_actual = analysis.estimated_actual
           /\ b.method = a.method
           /\ b.weighted_persons = a.weighted_persons
           /\ b.x_confidence = a.x_confidence
           /\ b.y_confidence = a.y_confidence
           /\ b.difference = a.difference
           /\ b.agreement = a.agreement
           /\ Abs(twin.pair.time_diff) = Abs(pair.time_diff)
                => b.time_penalty = a.time_penalty

\* Two pairs with the same counts and confidences, other ids and another
\* time difference have been analysed.
C21_Witness ==
    /\ Twinned
    /\ twin.pair.x_id # pair.x_id
    /\ Abs(twin.pair.time_diff) # Abs(pair.time_diff)
    /\ X # Y
    /\ twin.analysis.analysis_data.time_penalty
         # analysis.analysis_data.time_penalty

\* C22 as stated: a single-shot analyze_and_store that has returned has
\* executed exactly one cycle; a continuous one starts a cycle after every
\* sleep and ends only on an interrupt.
C22_OneCycleThenReturn ==
    /\ [](( ~continuous /\ apc \in {"closed", "returned"}) => cycles = 1)
    /\ []((continuous /\ apc \in {"closed", "returned"}) => pair_sigint)
    /\ [][ (continuous /\ apc = "sleep" /\ apc' # "sleep" /\ ~pair_sigint')
             => apc' = "cycle" ]_vars

\* C22, amended: a single-shot call never sleeps and never executes a
\* second cycle; it has executed exactly one cycle when it returns after a
\* connect that worked and without an interrupt, and none when connect
\* failed. A continuous call goes from every sleep to a new cycle unless it
\* is interrupted, and once connected it ends only on an interrupt.
C22_CyclesByMode ==
    /\ [](~continuous => (cycles <= 1 /\ apc # "sleep"))
    /\ []((~continuous /\ apc = "closed" /\ ~pair_sigint) => cycles = 1)
    /\ [](apc = "returned" => (cycles = 0 /\ pairConn = "none"))
    /\ []((continuous /\ apc = "closed") => pair_sigint)
    /\ [][ (continuous /\ apc = "sleep" /\ apc' # "sleep" /\ ~pair_sigint')
             => apc' = "cycle" ]_vars
    /\ [][ (continuous /\ cycles' = cycles + 1) => apc' = "sleep" ]_vars

\* A continuous call has gone through a cycle and a sleep and stands at the
\* next cycle.
C22_Witness ==
    /\ continuous
    /\ cycles = 1
    /\ apc = "cycle"
    /\ ~pair_sigint
\* ------------------------------------------------------------------- C23

IsPrefix(s, t) == Len(s) <= Len(t) /\ SubSeq(t, 1, Len(s)) = s

\* C23: persisted records are append-only. Every step of the core leaves
\* the rows of detection_results, of the live Observations and of the
\* CorrelatedEstimates as a prefix of what the store holds afterwards (no
\* row is changed or removed), and the only step that adds a
\* CorrelatedEstimate is a pairing cycle of analyze_and_store: no step of
\* the batch or of the live processor does.
C23_AppendOnly ==
    [][ /\ IsPrefix(results, results')
        /\ IsPrefix(observations, observations')
        /\ IsPrefix(detections, detections')
        /\ IsPrefix(correlated, correlated')
        /\ correlated' # correlated
              => apc = "cycle" /\ pc = "idle" /\ lpc = "idle" ]_vars

\* Two results are stored and the run's row has been updated; or a pairing
\* cycle stored an estimate.
C23_Witness ==
    \/ /\ pc = "done"
       /\ Len(results) >= 2
       /\ runRow.status = "completed"
    \/ /\ apc = "closed"
       /\ Len(correlated) >= 1

\* ------------------------------------------------------------------- C24

InRange(c) == c = NoConf \/ (0 <= c /\ c <= 100)

\* C24: every persisted Result and every persisted Observation has a
\* detected count >= 0, and each of its confidences (avg, max, min) is
\* absent or lies in [0,1] (0..100 hundredths), whatever the detector
\* returned; the row of a failed item has count 0 and no confidences.
C24_CountAndConfidenceRanges ==
    /\ \A k \in 1..Len(results) :
          /\ results[k].persons_detected >= 0
          /\ InRange(results[k].avg_confidence)
          /\ InRange(results[k].max_confidence)
          /\ InRange(results[k].min_confidence)
          /\ ~results[k].success
                => /\ results[k].persons_detected = 0
                   /\ results[k].avg_confidence = NoConf
                   /\ results[k].max_confidence = NoConf
                   /\ results[k].min_confidence = NoConf
    /\ \A k \in 1..Len(observations) :
          /\ observations[k].persons_detected >= 0
          /\ InRange(observations[k].avg_confidence)
          /\ InRange(observations[k].max_confidence)
          /\ InRange(observations[k].min_confidence)

\* A run stored a failed item, an image with two persons and an image with
\* none.
C24_Witness ==
    /\ Len(results) = 3
    /\ ~results[1].success
    /\ results[2].persons_detected = 2
    /\ results[2].avg_confidence = 75
    /\ results[2].min_confidence = 60
    /\ results[3].success
    /\ results[3].persons_detected = 0
    /\ results[3].max_confidence = 0

\* ------------------------------------------------------------------- C25

\* The cross-source pairs of the store within max_time_diff.
Window ==
    { p \in CrossProduct(detections) : Abs(p.time_diff) <= max_time_diff }

\* Those whose confidences both reach confidence_threshold.
Qualifying ==
    { p \in Window : /\ ConfOf(p.x_confidence) >= confidence_threshold
                     /\ ConfOf(p.y_confidence) >= confidence_threshold }

Persisted(p) ==
    \E k \in 1..Len(correlated) :
       /\ correlated[k].source_x_id = p.x_id
       /\ correlated[k].source_y_id = p.y_id

\* The single-shot call has run its cycle and every insert succeeded.
CycleStored ==
    /\ apc = "closed"
    /\ cycles = 1
    /\ Len(correlated) = Len(AnalyzeAll(lastPairs))

SharedObservation(rows) ==
    \E i, j \in 1..Len(rows) :
       /\ i # j
       /\ \/ rows[i].source_x_id = rows[j].source_x_id
          \/ rows[i].source_y_id = rows[j].source_y_id

\* C26: pairing does not consume Observations. A pairing cycle leaves the
\* rows of person_detections as they are, and when the inserts of all its
\* results succeed it stores a CorrelatedEstimate for every fetched pair
\* that passes the gate, also for a pair that shares a detection with a
\* pair stored before:
\* no step keeps two estimates from referring to the same Observation.
C26_ObservationsNotConsumed ==
    [][ cycles' = cycles + 1 =>
          /\ detections' = detections
          /\ LET passing == { i \in 1..Len(lastPairs') :
                                lastPairs'[i] \in Qualifying }
             IN  Len(correlated')
                    = Len(correlated) + Len(AnalyzeAll(lastPairs'))
                   => \A i \in passing :
                         \E k \in (Len(correlated) + 1)..Len(correlated') :
                            /\ correlated'[k].source_x_id = lastPairs'[i].x_id
                            /\ correlated'[k].source_y_id = lastPairs'[i].y_id
        ]_vars

\* One cycle has stored two estimates that refer to the same detection.
C26_Witness ==
    /\ apc = "closed"
    /\ cycles = 1
    /\ Len(correlated) = 2
    /\ SharedObservation(correlated)

\* ------------------------------------------------------------------- C27

\* C27: a repository failure at the start of a live session does not stall
\* ingestion: whatever connect and create_tables return, start() goes on to
\* its loop over the ImageSource, and it returns only through stop(), which
\* sets the stop event.
C27_StartFailureDoesNotStall ==
    lpc = "returned" => stop_event

\* ------------------------------------------------------------------- C28

\* C28: a KeyboardInterrupt in the loop of start() leads to the finally
\* clause, as does every other way out of the loop (the break, the end of
\* watch()), and the finally clause leaves only by stop(): when start()
\* returns after an interrupt the ImageSource has been asked to stop, the
\* session is no longer running and the repository connection is closed.
C28_InterruptShutsDown ==
    [][ /\ (sigint' /\ ~sigint) => lpc' = "finally"
        /\ (lpc \in LiveTryPcs /\ lpc' \notin LiveTryPcs) => lpc' = "finally"
        /\ (lpc = "finally" /\ lpc' # "finally")
              => /\ lpc' = "returned"
                 /\ stop_event'
                 /\ ~running'
                 /\ liveConn' = "closed"
        /\ (lpc' = "returned" /\ sigint')
              => stop_event' /\ ~running' /\ liveConn' = "closed" ]_vars

\* start() has returned after an interrupt that arrived while a tuple was
\* in hand, one image having been processed before.
C28_Witness ==
    /\ lpc = "returned"
    /\ sigint
    /\ stop_event
    /\ liveConn = "closed"
    /\ Len(calls) = 1
    /\ Len(yielded) = 2

\* ------------------------------------------------------------------- C29

\* C29: nothing is retried within a session. _setup_database (connect,
\* create_tables, insert_run) is called at most once in a session of
\* LiveDetectionProcessor, also when it fails, and detector.detect is
\* invoked at most once on each item.
C29_NoRetries ==
    /\ Len(session_setups) <= 1
    /\ \A i \in Range(session_detects) :
          Cardinality({ k \in 1..Len(session_detects) :
                          session_detects[k] = i }) = 1

\* ------------------------------------------------------------------- C30

\* C30: every Result saved during a session carries the run id under which
\* the session's row of ai_runs was inserted: the stored rows of a batch
\* run carry the run_id of its run row, and once a session of
\* LiveDetectionProcessor has inserted its run row, every dict it hands to
\* _save_result carries the run_id of that row.
C30_ResultsCarryRunId ==
    /\ \A k \in 1..Len(results) :
          /\ runRow # NoRow
          /\ results[k].run_id = runRow.run_id
    /\ \A k \in 1..Len(session_saves) :
          session_runs # << >>
             => session_saves[k].run_id \in Range(session_runs)

\* ------------------------------------------------------------------- C31

\* C31: with a size cap max_images = n, for every integer n >= 0, the list
\* handed to _execute_processing has at most n items, and they are the
\* first n items of the list get_classified_images returned (all of them
\* when the list is shorter).
C31_CapBoundsItems ==
    (cappc # "listed" /\ max_images # NoCap)
       => /\ Len(handed) <= max_images
          /\ \A i \in 1..Len(images) :
                i <= max_images => (i <= Len(handed) /\ handed[i] = images[i])

\* C32 as claimed: the directories are scanned dir_x first, dir_y second,
\* in every pass, and the first eligible file of a directory is yielded in
\* the pass whenever it decodes.
C32_DecodableFirstMatchYielded ==
    [][ /\ (WatchStep /\ wpc' = "sleep") => wdir = "Y"
        /\ (wpc = "load" /\ WatchStep /\ Decodes(dirs[wdir], next_img))
              => wpc' = "yielded" ]_vars

\* C32 as amended: a pass starts with the scan of dir_x, the scan of dir_y
\* follows it, and the pause is reached only from dir_y, so the yields of
\* a pass are an X item, a Y item, or an X item followed by a Y item. A
\* scan selects a file whenever its own directory holds an eligible one,
\* and the selected file, when it decodes, is either yielded in this pass
\* or left in place because it could not be removed; the other directory
\* does not enter into either step.
C32_BothScannedInOrder ==
    [][ /\ (WatchStep /\ wpc' = "scan") =>
              IF wdir' = "X" THEN wpc = "head"
                             ELSE wdir = "X" /\ wpc \in {"scan", "load", "yielded"}
        /\ (WatchStep /\ wpc' = "sleep") =>
              wdir = "Y" /\ wpc \in {"scan", "load", "yielded"}
        /\ cycle_yields' \in { << >>, << "X" >>, << "Y" >>, << "X", "Y" >> }
        /\ (wpc = "scan" /\ WatchStep
              /\ \E k \in 1..Len(dirs[wdir]) : dirs[wdir][k].eligible)
              => wpc' = "load" /\ wdir' = wdir
        /\ (wpc = "load" /\ WatchStep /\ Decodes(dirs[wdir], next_img)) =>
              \/ /\ wpc' = "yielded"
                 /\ yielded' = Append(yielded,
                                      [ source |-> wdir, id |-> next_img ])
                 /\ next_img \notin Ids(dirs'[wdir])
              \/ /\ wpc' # "yielded"
                 /\ dirs' = dirs
                 /\ yielded' = yielded ]_vars

\* dir_y has yielded in a pass in which the first eligible file of dir_x
\* did not decode and stays where it is.
C32_Witness ==
    /\ wpc = "yielded"
    /\ wdir = "Y"
    /\ cycle_yields = << "Y" >>
    /\ Blocked(dirs["X"])
    /\ \E k \in 1..Len(dirs["X"]) : dirs["X"][k].id \in failedIds

\* C33 as claimed: between two items and at the end of the run the two
\* counters add up to the number of recorded processing times and to the
\* number of items gone through, never more than the number of items, and
\* a completed run has counted every item.
C33_CountersMatchTimes ==
    /\ (total >= 0 => Counted <= total)
    /\ (pc \in {"loop", "finalize", "done"} => Counted = processing_times)
    /\ (pc = "loop" => Counted = idx)
    /\ (pc = "done" /\ status = "completed" => Counted = total)

\* C33 as amended: the processing time of an item is recorded before its
\* outcome is counted, so the two counters add up to the number of
\* recorded processing times except between these two statements, where
\* one more time is recorded; an interrupt that arrives there ends the run
\* with that difference. Between two items the sum is the number of items
\* gone through; it never exceeds the number of items; a run that ends
\* completed has counted every item, and its completion update carries
\* that number as total and as the sum of the two counters.
C33_CountersFollowTimes ==
    /\ (total >= 0 => Counted <= total /\ idx <= total)
    /\ processing_times <= idx
    /\ processing_times =
          (IF pc = "tally" \/ interruptedAt = "tally" THEN Counted + 1
                                                      ELSE Counted)
    /\ (pc = "loop" => Counted = idx)
    /\ (pc = "done" /\ status = "completed")
          => /\ Counted = total
             /\ processing_times = total
             /\ (db_connected /\ ~updateFailed)
                   => /\ runRow.status = "completed"
                      /\ runRow.total_images = total
                      /\ runRow.successful_detections
                            + runRow.failed_detections = total

\* A run of three items has ended completed with both outcomes counted and
\* its completion update stored.
C33_Witness ==
    /\ pc = "done"
    /\ status = "completed"
    /\ total = 3
    /\ successful_detections = 2
    /\ failed_detections = 1
    /\ processing_times = 3
    /\ runRow.status = "completed"
    /\ runRow.total_images = 3

\* C34: for a pair whose confidences both reach the threshold the estimate
\* lies between the two counts: min(x, y) <= estimate <= max(x, y).
C34_EstimateBetweenCounts ==
    (/\ Estimated
     /\ XConf >= confidence_threshold
     /\ YConf >= confidence_threshold)
       => \E e \in Min(X, Y)..Max(X, Y) : EstimateIs(e)

\* The weighted average of counts 2 apart falls strictly between them.
C34_Witness ==
    /\ epc = "analyzed"
    /\ X = 2 /\ Y = 4
    /\ XConf = 88 /\ YConf = 90
    /\ analysis # None
    /\ analysis.estimated_actual = 3

\* C35: the estimation is symmetric in the two sources: the pair with its
\* sides exchanged is discarded by the gate exactly when the pair is, and
\* otherwise gets the same estimate and the same result confidence; the
\* direct call of _estimate_actual_persons with the sides exchanged
\* returns the same estimate.
C35_EstimationSymmetric ==
    epc = "swapped" =>
        IF estimate # NoConf
          THEN twin.estimate = estimate
          ELSE /\ (twin.analysis = None) <=> (analysis = None)
               /\ analysis # None =>
                     /\ twin.analysis.estimated_actual
                           = analysis.estimated_actual
                     /\ twin.analysis.confidence = analysis.confidence
                     /\ twin.analysis.persons_x = analysis.persons_y
                     /\ twin.analysis.persons_y = analysis.persons_x

\* The sides differ in count, confidence and time, the higher-confidence
\* rule decides, and both orders give the count of that side.
C35_Witness ==
    /\ epc = "swapped"
    /\ X = 2 /\ Y = 4
    /\ XConf = 65 /\ YConf = 88
    /\ pair.time_diff = 25
    /\ analysis # None
    /\ twin.pair.x_persons = 4
    /\ twin.pair.time_diff = -25
    /\ twin.analysis.estimated_actual = 4
    /\ analysis.estimated_actual = 4

\* C36: the store never holds two CorrelatedEstimates for the same pair of
\* detection ids: a pair persisted in one pass of analyze_and_store is not
\* persisted again in a later pass.
C36_NoPairPersistedTwice ==
    \A j, k \in 1..Len(correlated) :
        j # k =>
           << correlated[j].source_x_id, correlated[j].source_y_id >>
              # << correlated[k].source_x_id, correlated[k].source_y_id >>

\* C37: whenever process_images returns, a connection that the run opened
\* has been closed, whether the setup succeeded, failed after the connect,
\* or the image list was empty.
C37_ConnectionClosedOnReturn ==
    pc = "done" => conn # "open"

\* C38: for every threshold the analyzer is configured with, no pair
\* reaches the weighted average with both confidences 0, so _analyze_pair
\* never divides by zero, and a pair with an absent confidence is
\* discarded by the gate.
C38_DivisionAlwaysDefined ==
    epc = "analyzed" =>
        /\ analysis # [ error |-> "ZeroDivisionError" ]
        /\ (pair.x_confidence = NoConf \/ pair.y_confidence = NoConf)
              => analysis = None

\* The pair is decided by the weighted-average rule and its exact weighted
\* average lies halfway between the two counts.
ExactTie ==
    /\ Estimated
    /\ Abs(X - Y) = 1
    /\ XConf = YConf
    /\ XConf > 0

EvenNeighbour == IF Min(X, Y) % 2 = 0 THEN Min(X, Y) ELSE Max(X, Y)

OddNeighbour == IF Min(X, Y) % 2 = 0 THEN Max(X, Y) ELSE Min(X, Y)

\* C39 as claimed: at an exact tie of the weighted average the estimate is
\* the even neighbour.
C39_TieGoesToEven ==
    ExactTie => EstimateIs(EvenNeighbour)

\* C39 as amended: in the weighted-average rule the estimate is an integer
\* nearest to the weighted average. At an exact tie it is the even
\* neighbour when the quotient computed in floating point is the half
\* itself, as at the confidences 0.5 and 1.0 ((2,3) gives 2, (3,4) gives
\* 4); at the ties of FloatTieOff the float quotient falls beside the half
\* and the estimate is the odd neighbour ((3,4) at 0.6 gives 3).
C39_TieFollowsFloatQuotient ==
    /\ (/\ Estimated
        /\ Abs(X - Y) \in {1, 2}
        /\ Abs(XConf - YConf) <= conf_diff_limit
        /\ XConf + YConf > 0)
          => \E e \in Min(X, Y)..Max(X, Y) :
                /\ EstimateIs(e)
                /\ 2 * Abs(e * (XConf + YConf) - (X * XConf + Y * YConf))
                      <= XConf + YConf
    /\ (ExactTie /\ XConf \in {50, 100}) => EstimateIs(EvenNeighbour)
    /\ (ExactTie /\ << Min(X, Y), XConf >> \in FloatTieOff)
          => EstimateIs(OddNeighbour)
    /\ (ExactTie /\ << Min(X, Y), XConf >> \notin FloatTieOff)
          => EstimateIs(EvenNeighbour)

\* The counts 3 and 4 at the confidence 0.6 on both sides pass the gate and
\* are estimated as 3.
C39_Witness ==
    /\ epc = "analyzed"
    /\ X = 3 /\ Y = 4
    /\ XConf = 60 /\ YConf = 60
    /\ analysis # None
    /\ analysis.estimated_actual = 3

\* C40: for any two distinct input directories the tag of a yielded tuple
\* belongs to the directory the file came from and to no other, so the
\* tags of the two directories differ.
C40_TagIdentifiesLocation ==
    [][ yielded' # yielded =>
           \A d \in Dirs \ {wdir} :
               directory_name(d) # yielded'[Len(yielded')].source ]_vars

====
